---- MODULE Spec2Model ----
(***************************************************************************)
(* Request-resilience core of the Amazon scraper:                          *)
(*   AmazonScraper.can_fetch / make_request   (amazon_scraper.py)          *)
(*   AmazonScraper.get_free_proxies           (amazon_scraper.py)          *)
(*   EnhancedAmazonScraper.make_request / warm_up_session                  *)
(*                                            (enhanced_scraper.py)        *)
(*   AmazonScraper.__init__ / setup_robots_parser / get_enhanced_headers   *)
(*   AmazonScraper._extract_product_urls_comprehensive                     *)
(*   AmazonScraper.extract_product_details                                 *)
(* The sequential fetch flow is a stack machine (one frame per Python      *)
(* call); the proxy validation fan-out is a set of concurrent tasks; the   *)
(* extraction functions are applied to pages drawn from bounded sets.      *)
(***************************************************************************)
EXTENDS Integers, Sequences, FiniteSets, TLC

VARIABLES
    enhanced,          \* TRUE: the object is an EnhancedAmazonScraper
    respect_robots,    \* self.respect_robots
    robot_parser,      \* "parser" | "None"  (self.robot_parser)
    disallowed,        \* the parsed ruleset: <<user agent, url>> pairs refused
    ua,                \* "UserAgent" | "None"  (self.ua)
    proxies,           \* self.proxies (a list)
    session_warmed,    \* EnhancedAmazonScraper.session_warmed
    request_count,     \* EnhancedAmazonScraper.request_count
    stack,             \* the Python call stack, innermost frame last
    ret,               \* what the call that just ended handed to its caller
    calls,             \* number of top-level make_request calls started
    max_proxies,       \* get_free_proxies: the max_proxies argument
    gpc,               \* get_free_proxies: position
    all_proxies,       \* get_free_proxies: candidates scraped so far
    source,            \* get_free_proxies: index of the next proxy source
    task,              \* executor.map: per candidate "pending"|"running"|"done"
    verdict,           \* per candidate: what its validation request did
    results,           \* executor.map: per candidate the value test_proxy returned
    working_proxies,   \* get_free_proxies: the validated proxies
    pool,              \* get_free_proxies: the returned list
    cpc,               \* __init__: position of the constructor
    read_outcome,      \* setup_robots_parser: what robot_parser.read() did
    robots_reads,      \* number of requests made for robots.txt
    answer,            \* the last call of the identity/gate interface and its value
    soup,              \* _extract_product_urls_comprehensive: the parsed search page
    page_urls,         \* the list the last extraction returned
    prev_urls,         \* the list the extraction before it returned
    extractions,       \* number of extractions run on this page
    markup,            \* extract_product_details: the parsed product page
    product,           \* extract_product_details: what the call handed back
    backoff,           \* one fetch call of a scraper: the sleeps after its failed attempts
    analysis,          \* an analyzer call: its argument and what it handed back
    search,            \* search_products: its locals and what it handed back
    detail             \* EnhancedAmazonScraper.extract_product_details: the same

vars == << enhanced, respect_robots, robot_parser, disallowed, ua, proxies,
           session_warmed, request_count, stack, ret, calls,
           max_proxies, gpc, all_proxies, source, task, verdict, results,
           working_proxies, pool,
           cpc, read_outcome, robots_reads, answer,
           soup, page_urls, prev_urls, extractions, markup, product,
           backoff, analysis, search, detail >>

fetchVars == << enhanced, respect_robots, robot_parser, disallowed, ua, proxies,
                session_warmed, request_count, stack, ret, calls >>

discoverVars == << max_proxies, gpc, all_proxies, source, task, verdict, results,
                  working_proxies, pool >>

identityVars == << cpc, read_outcome, robots_reads, answer >>

extractVars == << soup, page_urls, prev_urls, extractions >>

recordVars == << markup, product >>

workflowVars == << backoff, analysis, search, detail >>

(***************************************************************************)
(* Bounds of the model                                                     *)
(***************************************************************************)
MaxCalls == 2          \* top-level make_request calls per run
MaxRetriesArg == 0     \* explicit `retries` arguments range over 0..MaxRetriesArg
MaxPoolProxies == 2    \* validated proxies in self.proxies besides the direct connection
MaxCandidates == 3     \* candidates scraped from the proxy sources
MaxListLen == 2        \* length of a list assigned to self.proxies from outside
MaxCap == 3            \* explicit max_proxies arguments range over 0..MaxCap
MaxDepth == 6          \* frames on the call stack

(***************************************************************************)
(* Program constants                                                       *)
(***************************************************************************)
MAX_RETRIES == 3           \* amazon_scraper.py:64
MIN_BODY_LEN == 5000       \* amazon_scraper.py:349
DEFAULT_MAX_PROXIES == 10  \* amazon_scraper.py:137
NUM_SOURCES == 3           \* amazon_scraper.py:156-160
MAX_WORKERS == 10          \* amazon_scraper.py:206

None == "None"
HOME == "https://www.amazon.com"
BESTSELLERS == "https://www.amazon.com/gp/bestsellers"
PRODUCT == "https://www.amazon.com/dp/B000000001"
URLs == {HOME, BESTSELLERS, PRODUCT}

ProxyName(i) == IF i = 1 THEN "http://10.0.0.1:80"
                ELSE IF i = 2 THEN "http://10.0.0.2:80"
                ELSE IF i = 3 THEN "http://10.0.0.3:80"
                ELSE "http://10.0.0.4:80"

\* self.user_agents, the hard-coded pool (amazon_scraper.py:109-115)
user_agents == {"Chrome/Windows", "Safari/Mac", "Chrome/Linux", "Firefox/Windows",
                "Safari/iPhone"}

(***************************************************************************)
(* HTTP: what one session.get can do                                       *)
(***************************************************************************)
NoResp == [exc |-> "none", status |-> 0, amazon |-> FALSE, captcha |-> FALSE, len |-> 0]

\* A response: its status and what the checks read off its body. The body's
\* site marker and size are read for status 200 only (line 347-349).
Responses ==
    [exc : {"none"}, status : {200}, amazon : BOOLEAN, captcha : BOOLEAN,
     len : {MIN_BODY_LEN, MIN_BODY_LEN + 1}]
    \cup [exc : {"none"}, status : {202, 503, 404}, amazon : {TRUE}, captcha : BOOLEAN,
          len : {MIN_BODY_LEN + 1}]

\* except (ConnectionError, Timeout, ProxyError)      amazon_scraper.py:361
CaughtExceptions == {"ConnectionError", "Timeout", "ProxyError"}

\* a RequestException that is none of the three, raised by session.get with
\* allow_redirects=True
OtherExceptions == {"TooManyRedirects"}

Raised(e) == [exc |-> e, status |-> 0, amazon |-> FALSE, captcha |-> FALSE, len |-> 0]

Outcomes == Responses \cup {Raised(e) : e \in CaughtExceptions \cup OtherExceptions}

(***************************************************************************)
(* Identity source and policy gate                                         *)
(***************************************************************************)
\* get_random_user_agent: the values a call can produce; "raise" stands for an
\* exception of self.ua.random (fake_useragent), which nothing here catches.
get_random_user_agent ==
    IF ua # None THEN user_agents \cup {"raise"} ELSE user_agents

\* can_fetch(url): the values a call can produce ("raise": the call raises).
\* ruleError: robot_parser.can_fetch itself raises, which the bare except turns
\* into True.
can_fetch(url) ==
    IF ~respect_robots \/ robot_parser = None
    THEN {"True"}
    ELSE { IF user_agent = "raise" THEN "raise"
           ELSE IF ruleError THEN "True"
           ELSE IF <<user_agent, url>> \in disallowed THEN "False" ELSE "True" :
           user_agent \in get_random_user_agent, ruleError \in BOOLEAN }

(***************************************************************************)
(* make_request: the pieces of one attempt                                 *)
(***************************************************************************)
\* Variant: the size check left out.
plausible_without_size(r) == r.amazon

\* amazon_scraper.py:349
plausible(r) == r.amazon /\ r.len > MIN_BODY_LEN

\* How the body of the attempt loop disposes of what session.get did.
classify(o) ==
    IF o.exc # "none"
    THEN IF o.exc \in CaughtExceptions THEN "transport" ELSE "raise"
    ELSE IF o.status = 202 THEN "soft202"
    ELSE IF o.status = 503 \/ o.captcha THEN "blocked"
    ELSE IF o.status = 200
         THEN IF plausible(o) THEN "success" ELSE "implausible"
    ELSE "httperror"

\* The sleep that follows a failed attempt of the given class before the loop
\* goes on: time.sleep(10..15) for 202; `continue` skips the backoff for the
\* blocked and the implausible classes; the backoff for the rest.
sleep_after(kind) ==
    IF kind = "soft202" THEN "elevated"
    ELSE IF kind \in {"blocked", "implausible"} THEN "none"
    ELSE "backoff"

\* Variant: the direct connection is marked failed as well.
mark_failed_any(failed, proxy) == failed \cup {proxy}

\* if proxy: failed_proxies.add(proxy)
mark_failed(failed, proxy) == IF proxy # None THEN failed \cup {proxy} ELSE failed

Range(s) == {s[i] : i \in 1..Len(s)}

\* Variant: no reset when nothing is available; the attempt goes direct.
select_proxy_no_reset(list, failed) ==
    LET available == {p \in {list[i] : i \in 1..Len(list)} : p \notin failed}
    IN  IF available = {}
        THEN {[proxy |-> None, cooldown |-> TRUE]}
        ELSE {[proxy |-> p, cooldown |-> FALSE] : p \in available}

\* Variant: the failed set is not consulted.
select_proxy_ignoring_failed(list, failed) ==
    IF list = <<>>
    THEN {[proxy |-> None, cooldown |-> TRUE]}
    ELSE {[proxy |-> list[i], cooldown |-> FALSE] : i \in 1..Len(list)}

\* amazon_scraper.py:311-318: the selections an attempt can make, each with
\* whether the extra cooldown sleep was applied.
select_proxy(list, failed) ==
    LET available == {p \in Range(list) : p \notin failed}
    IN  IF available = {}
        THEN IF list = <<>>
             THEN {[proxy |-> None, cooldown |-> TRUE]}
             ELSE {[proxy |-> p, cooldown |-> TRUE] : p \in Range(list)}
        ELSE {[proxy |-> p, cooldown |-> FALSE] : p \in available}

\* No call of the identity/gate interface has been made.
NoHeaders == [agent |-> "", mobile |-> "", platform |-> "", viewport |-> 0]

NoAnswer == [op |-> "none", url |-> "", value |-> "", headers |-> NoHeaders]

NoFields == [key \in {} |-> ""]

\* What extract_product_details handed back: "record" with the dict, "None",
\* or "raise" for an exception; `fetch` is how its make_request call had ended.
NoProduct == [result |-> "unset", fetch |-> "none", fields |-> NoFields]

Url(host, path, query, fragment) ==
    [host |-> host, path |-> path, query |-> query, fragment |-> fragment]

\* no href attribute, or an empty one
NoHref == Url("", <<>>, {}, FALSE)

\* _clean_product_url returned None
NoUrl == Url("None", <<>>, {}, FALSE)

\* No fetch call is under way.
NoBackoff == [fetcher |-> "none", pc |-> "idle", lo |-> 0, hi |-> 0, retries |-> 0,
              delays |-> <<>>]

\* No analyzer has been called.
NoAnalysis == [analyzer |-> "none", given |-> "none", items |-> <<>>, kind |-> "unset",
               min |-> <<>>, max |-> <<>>, average |-> <<>>, used |-> 0]

\* search_products has not been called.
NoSearch == [pc |-> "idle", max_pages |-> 0, page |-> 0, format |-> 0,
             product_urls |-> {}, listed |-> <<>>,
             path |-> "none", result |-> "unset", urls |-> <<>>]

\* The enhanced extract_product_details has not been called.
NoDetail == [pc |-> "idle", selenium |-> FALSE, given |-> NoUrl, first |-> NoUrl,
             url |-> NoUrl, rounds |-> 0, result |-> "unset", record_url |-> NoUrl]

(***************************************************************************)
(* The call stack                                                          *)
(***************************************************************************)
Frame(fn, url, retries) ==
    [fn |-> fn, pc |-> "start", url |-> url, retries |-> retries,
     attempt |-> 0, failed_proxies |-> {}, proxy |-> None, cooldown |-> FALSE,
     original_proxies |-> <<>>, reqs |-> 0, slept |-> FALSE, gates |-> <<>>,
     last_kind |-> "none", only_transport |-> TRUE, used_failed |-> {},
     passes |-> 0, last_sleep |-> "none", entry |-> proxies]

NoRet == [cls |-> "none", url |-> "", retries |-> 0, outcome |-> "none",
          value |-> NoResp, reqs |-> 0, slept |-> FALSE, gates |-> <<>>,
          last_kind |-> "none", only_transport |-> TRUE, used_failed |-> {},
          failed |-> {}, passes |-> 0, attempt |-> 0, entry |-> <<>>]

\* What frame f hands to its caller when it ends with `outcome` and `value`.
Result(f, outcome, value) ==
    [cls |-> f.fn, url |-> f.url, retries |-> f.retries, outcome |-> outcome,
     value |-> value, reqs |-> f.reqs, slept |-> f.slept, gates |-> f.gates,
     last_kind |-> f.last_kind, only_transport |-> f.only_transport,
     used_failed |-> f.used_failed, failed |-> f.failed_proxies,
     passes |-> f.passes, attempt |-> f.attempt, entry |-> f.entry]

Top == stack[Len(stack)]
Pop == SubSeq(stack, 1, Len(stack) - 1)
SetTop(f) == stack' = [stack EXCEPT ![Len(stack)] = f]
Call(f, callee) == stack' = Append([stack EXCEPT ![Len(stack)] = f], callee)
Return(r) == stack' = Pop /\ ret' = r
Running(fn, pc) == stack # <<>> /\ Top.fn = fn /\ Top.pc = pc

sessionVars == << enhanced, respect_robots, robot_parser, disallowed, ua, discoverVars,
                  identityVars, extractVars, recordVars, workflowVars >>

(***************************************************************************)
(* AmazonScraper.make_request   (amazon_scraper.py:280-372)                *)
(***************************************************************************)
\* line 299-300: the gate check
GateCheck ==
    /\ Running("B", "start")
    /\ \E g \in can_fetch(Top.url) :
         LET f == [Top EXCEPT !.gates = <<g>>]
         IN  CASE g = "raise" -> Return(Result(f, "raised", NoResp))
               [] g = "False" -> Return(Result(f, "policy", NoResp))
               [] OTHER       -> SetTop([f EXCEPT !.pc = "delay"]) /\ UNCHANGED ret
    /\ UNCHANGED << sessionVars, proxies, session_warmed, request_count, calls >>

\* line 303-306: the pre-request sleep, then failed_proxies = set()
PreRequestDelay ==
    /\ Running("B", "delay")
    /\ SetTop([Top EXCEPT !.pc = "select", !.slept = TRUE, !.failed_proxies = {},
                          !.attempt = 0])
    /\ UNCHANGED << sessionVars, proxies, session_warmed, request_count, calls, ret >>

\* Variant: the loop runs one attempt too many.
loop_done_late(attempt, retries) == attempt > retries

\* line 309: for attempt in range(retries) has no further value
loop_done(attempt, retries) == attempt >= retries

\* line 309-320: the head of one attempt: pick a proxy (with the cooldown sleep
\* when nothing is available), then build the headers, which asks the identity
\* source for a user agent.
SelectProxy ==
    /\ Running("B", "select")
    /\ ~loop_done(Top.attempt, Top.retries)
    /\ \E s \in select_proxy(proxies, Top.failed_proxies), agent \in get_random_user_agent :
         LET f == [Top EXCEPT !.proxy = s.proxy, !.cooldown = s.cooldown,
                              !.slept = @ \/ s.cooldown]
         IN  IF agent = "raise"
             THEN Return(Result(f, "raised", NoResp))
             ELSE SetTop([f EXCEPT !.pc = "request"]) /\ UNCHANGED ret
    /\ UNCHANGED << sessionVars, proxies, session_warmed, request_count, calls >>

\* The state of the frame after a failed attempt of class `kind`.
after_failure(f, kind) ==
    [f EXCEPT !.failed_proxies = mark_failed(@, f.proxy),
              !.slept = @ \/ sleep_after(kind) # "none",
              !.last_sleep = sleep_after(kind),
              !.only_transport = @ /\ kind = "transport",
              !.used_failed = @ \cup {f.proxy},
              !.attempt = @ + 1,
              !.proxy = None,
              !.cooldown = FALSE,
              !.pc = "select"]

\* line 322-369: session.get and what the loop body does with its outcome
Attempt ==
    /\ Running("B", "request")
    /\ \E o \in Outcomes :
         LET kind == classify(o)
             f == [Top EXCEPT !.reqs = @ + 1, !.last_kind = kind]
         IN  CASE kind = "success" -> Return(Result(f, "success", o))
               [] kind = "raise"   -> Return(Result(f, "raised", NoResp))
               [] OTHER            -> SetTop(after_failure(f, kind)) /\ UNCHANGED ret
    /\ UNCHANGED << sessionVars, proxies, session_warmed, request_count, calls >>

\* line 371-372: the loop ran out
Exhausted ==
    /\ Running("B", "select")
    /\ loop_done(Top.attempt, Top.retries)
    /\ Return(Result(Top, "exhausted", NoResp))
    /\ UNCHANGED << sessionVars, proxies, session_warmed, request_count, calls >>

(***************************************************************************)
(* EnhancedAmazonScraper.make_request   (enhanced_scraper.py:80-116)       *)
(***************************************************************************)
\* Variant: the warm-up is started by every call made before it has finished.
should_warm_up_unguarded(warmed, count) == ~warmed

\* line 85: if not self.session_warmed and self.request_count == 1
should_warm_up(warmed, count) == ~warmed /\ count = 1

\* line 108: if not success and original_proxies and len(original_proxies) > 1
wants_proxy_pass(outcome, original) ==
    outcome # "success" /\ original # <<>> /\ Len(original) > 1

\* The frame of the enhanced call after one pass of the parent's make_request
\* has ended with r.
after_pass(f, r) ==
    [f EXCEPT !.reqs = @ + r.reqs, !.slept = @ \/ r.slept,
              !.gates = @ \o r.gates, !.passes = @ + 1]

\* What the enhanced call returns: the (success, response) pair of its last
\* pass, here with that pass's attempt record.
EnhancedResult(f, r) ==
    [r EXCEPT !.cls = f.fn, !.reqs = f.reqs, !.slept = f.slept, !.gates = f.gates,
              !.passes = f.passes, !.entry = f.entry]

\* line 82-86
EnhancedStart ==
    /\ Running("E", "start")
    /\ request_count' = request_count + 1
    /\ IF should_warm_up(session_warmed, request_count')
       THEN /\ Len(stack) < MaxDepth
            /\ Call([Top EXCEPT !.pc = "warm"], Frame("W", "", 0))
       ELSE SetTop([Top EXCEPT !.pc = "delay"])
    /\ UNCHANGED << sessionVars, proxies, session_warmed, calls, ret >>

\* warm_up_session has ended (line 86)
WarmUpDone ==
    /\ Running("E", "warm")
    /\ ret.cls = "W"
    /\ IF ret.outcome = "raised"
       THEN Return(Result(Top, "raised", NoResp))
       ELSE SetTop([Top EXCEPT !.pc = "delay"]) /\ ret' = NoRet
    /\ UNCHANGED << sessionVars, proxies, session_warmed, request_count, calls >>

\* line 88-97: the progressive delay, then time.sleep(base_delay)
ProgressiveDelay ==
    /\ Running("E", "delay")
    /\ SetTop([Top EXCEPT !.pc = "direct", !.slept = TRUE])
    /\ UNCHANGED << sessionVars, proxies, session_warmed, request_count, calls, ret >>

\* line 101-105: force the direct connection and enter the parent's make_request
DirectPass ==
    /\ Running("E", "direct")
    /\ Len(stack) < MaxDepth
    /\ proxies' = << None >>
    /\ Call([Top EXCEPT !.pc = "pass1", !.original_proxies = proxies],
            Frame("B", Top.url, Top.retries))
    /\ UNCHANGED << sessionVars, session_warmed, request_count, calls, ret >>

\* Variant: no finally clause; self.proxies stays as the call left it.
no_restore(original, current) == current

\* line 115-116: finally: self.proxies = original_proxies
restore(original, current) == original

\* line 105-116: the direct pass has ended; the second pass runs on
\* original_proxies (line 110), and the finally clause restores self.proxies on
\* every way out.
DirectPassDone ==
    /\ Running("E", "pass1")
    /\ ret.cls = "B"
    /\ proxies' = IF ret.outcome # "raised"
                      /\ wants_proxy_pass(ret.outcome, Top.original_proxies)
                  THEN Top.original_proxies
                  ELSE restore(Top.original_proxies, proxies)
    /\ LET f == after_pass(Top, ret)
       IN  IF ret.outcome # "raised" /\ wants_proxy_pass(ret.outcome, Top.original_proxies)
           THEN /\ Len(stack) < MaxDepth
                /\ Call([f EXCEPT !.pc = "pass2"], Frame("B", Top.url, Top.retries))
                /\ ret' = NoRet
           ELSE Return(EnhancedResult(f, ret))
    /\ UNCHANGED << sessionVars, session_warmed, request_count, calls >>

\* line 111-116: the pass with the proxies has ended
ProxyPassDone ==
    /\ Running("E", "pass2")
    /\ ret.cls = "B"
    /\ proxies' = restore(Top.original_proxies, proxies)
    /\ Return(EnhancedResult(after_pass(Top, ret), ret))
    /\ UNCHANGED << sessionVars, session_warmed, request_count, calls >>

(***************************************************************************)
(* EnhancedAmazonScraper.warm_up_session   (enhanced_scraper.py:36-56)     *)
(***************************************************************************)
\* line 38-44
WarmUpStart ==
    /\ Running("W", "start")
    /\ IF session_warmed
       THEN Return(Result(Top, "none", NoResp))
       ELSE /\ Len(stack) < MaxDepth
            /\ Call([Top EXCEPT !.pc = "home"], Frame("E", HOME, MAX_RETRIES))
            /\ UNCHANGED ret
    /\ UNCHANGED << sessionVars, proxies, session_warmed, request_count, calls >>

\* line 44-50: the homepage visit has ended
WarmUpHome ==
    /\ Running("W", "home")
    /\ ret.cls = "E"
    /\ IF ret.outcome = "raised"
       THEN Return(Result(Top, "raised", NoResp))
       ELSE /\ Len(stack) < MaxDepth
            /\ Call([Top EXCEPT !.pc = "category",
                                !.slept = @ \/ ret.outcome = "success"],
                    Frame("E", BESTSELLERS, MAX_RETRIES))
            /\ ret' = NoRet
    /\ UNCHANGED << sessionVars, proxies, session_warmed, request_count, calls >>

\* line 50-56: the category visit has ended
WarmUpCategory ==
    /\ Running("W", "category")
    /\ ret.cls = "E"
    /\ IF ret.outcome = "raised"
       THEN /\ Return(Result(Top, "raised", NoResp))
            /\ UNCHANGED session_warmed
       ELSE /\ session_warmed' = TRUE
            /\ Return(Result([Top EXCEPT !.slept = @ \/ ret.outcome = "success"],
                             "none", NoResp))
    /\ UNCHANGED << sessionVars, proxies, request_count, calls >>

(***************************************************************************)
(* The caller: a bounded sequence of logical fetches, one at a time        *)
(***************************************************************************)
RetriesArgs == (0..MaxRetriesArg) \cup {MAX_RETRIES}

CallMakeRequest ==
    /\ stack = <<>>
    /\ calls < MaxCalls
    /\ \E url \in {PRODUCT}, retries \in RetriesArgs :
         stack' = << Frame(IF enhanced THEN "E" ELSE "B", url, retries) >>
    /\ calls' = calls + 1
    /\ ret' = NoRet
    /\ UNCHANGED << sessionVars, proxies, session_warmed, request_count >>

(***************************************************************************)
(* The scraper after construction   (amazon_scraper.py:82-119,             *)
(* enhanced_scraper.py:31-34)                                              *)
(***************************************************************************)
\* A ruleset: the URLs refused to every agent and those refused to one agent.
Rules(all, mobile) == (user_agents \X all) \cup ({"Safari/iPhone"} \X mobile)
RuleSets == {Rules(all, mobile) : all \in SUBSET {PRODUCT, HOME}, mobile \in SUBSET {PRODUCT}}

\* [None] + the validated proxies, as get_free_proxies builds it
Pools == {[i \in 1..(n + 1) |-> IF i = 1 THEN None ELSE ProxyName(i - 1)] :
          n \in 0..MaxPoolProxies}

Init ==
    /\ enhanced \in BOOLEAN
    /\ respect_robots \in BOOLEAN
    /\ robot_parser \in (IF respect_robots THEN {"parser", None} ELSE {None})
    /\ disallowed \in (IF robot_parser = "parser" THEN RuleSets ELSE {{}})
    /\ ua \in {"UserAgent", None}
    /\ proxies \in Pools
    /\ session_warmed = FALSE
    /\ request_count = 0
    /\ stack = <<>>
    /\ ret = NoRet
    /\ calls = 0
    /\ max_proxies = 0
    /\ gpc = "idle"
    /\ all_proxies = <<>>
    /\ source = 0
    /\ task = <<>>
    /\ verdict = <<>>
    /\ results = <<>>
    /\ working_proxies = <<>>
    /\ pool = <<>>
    /\ cpc = "ready"
    /\ read_outcome = "none"
    /\ robots_reads = 0
    /\ answer = NoAnswer
    /\ soup = <<>>
    /\ page_urls = <<>>
    /\ prev_urls = <<>>
    /\ extractions = 0
    /\ markup = <<>>
    /\ product = NoProduct
    /\ backoff = NoBackoff
    /\ analysis = NoAnalysis
    /\ search = NoSearch
    /\ detail = NoDetail

Next ==
    \/ CallMakeRequest
    \/ GateCheck
    \/ PreRequestDelay
    \/ SelectProxy
    \/ Attempt
    \/ Exhausted
    \/ EnhancedStart
    \/ WarmUpDone
    \/ ProgressiveDelay
    \/ DirectPass
    \/ DirectPassDone
    \/ ProxyPassDone
    \/ WarmUpStart
    \/ WarmUpHome
    \/ WarmUpCategory

Spec == Init /\ [][Next]_vars

(***************************************************************************)
(* The same scraper with any list assigned to self.proxies (a plain public *)
(* attribute): the constructor always puts the direct connection first,    *)
(* a caller need not.                                                      *)
(***************************************************************************)
Endpoints == {None, ProxyName(1), ProxyName(2)}

AnyLists == UNION {[1..n -> Endpoints] : n \in 0..MaxListLen}

PoolInit ==
    /\ enhanced \in BOOLEAN
    /\ respect_robots = FALSE
    /\ robot_parser = None
    /\ disallowed = {}
    /\ ua \in {"UserAgent", None}
    /\ proxies \in AnyLists
    /\ session_warmed = FALSE
    /\ request_count = 0
    /\ stack = <<>>
    /\ ret = NoRet
    /\ calls = 0
    /\ max_proxies = 0
    /\ gpc = "idle"
    /\ all_proxies = <<>>
    /\ source = 0
    /\ task = <<>>
    /\ verdict = <<>>
    /\ results = <<>>
    /\ working_proxies = <<>>
    /\ pool = <<>>
    /\ cpc = "ready"
    /\ read_outcome = "none"
    /\ robots_reads = 0
    /\ answer = NoAnswer
    /\ soup = <<>>
    /\ page_urls = <<>>
    /\ prev_urls = <<>>
    /\ extractions = 0
    /\ markup = <<>>
    /\ product = NoProduct
    /\ backoff = NoBackoff
    /\ analysis = NoAnalysis
    /\ search = NoSearch
    /\ detail = NoDetail

PoolSpec == PoolInit /\ [][Next]_vars

(***************************************************************************)
(* AmazonScraper.get_free_proxies   (amazon_scraper.py:137-215)            *)
(***************************************************************************)
\* list[:n] of Python
Slice(list, n) ==
    IF n >= 0
    THEN SubSeq(list, 1, IF n < Len(list) THEN n ELSE Len(list))
    ELSE SubSeq(list, 1, IF Len(list) + n > 0 THEN Len(list) + n ELSE 0)

\* What a validation request can do: answer 200, answer another status, fail,
\* or run into its 5 s timeout.
Verdicts == {"200", "403", "error", "timeout"}

\* Variant: any answer counts, whatever its status.
test_proxy_any_status(proxy, v) == IF v \in {"200", "403"} THEN proxy ELSE None

\* line 194-204
test_proxy(proxy, v) == IF v = "200" THEN proxy ELSE None

\* line 209: [proxy for proxy in results if proxy]
working(res) == SelectSeq(res, LAMBDA r : r # None)

\* Variant: the direct connection is appended after the validated proxies.
build_pool_direct_last(valid, max) == Slice(valid \o << None >>, max)

\* line 154, 213-215: proxies = [None]; proxies.extend(working); proxies[:max]
build_pool(valid, max) == Slice(<< None >> \o valid, max)

\* The rows one source can list, given the room left by the model's bound.
Listings(room) ==
    UNION {[1..n -> {ProxyName(1), ProxyName(2)}] : n \in 0..room}

\* line 165-187: one source is fetched and parsed; a failure of the request or a
\* status other than 200 adds nothing and goes on to the next source.
ScrapeSource ==
    /\ gpc = "scrape"
    /\ source <= NUM_SOURCES
    /\ \E ok \in BOOLEAN, found \in Listings(MaxCandidates - Len(all_proxies)) :
         all_proxies' = IF ok THEN all_proxies \o found ELSE all_proxies
    /\ source' = source + 1
    /\ UNCHANGED << max_proxies, gpc, task, verdict, results, working_proxies, pool,
                    fetchVars, identityVars, extractVars, recordVars,
                    workflowVars >>

\* line 206-207: executor.map submits one task per candidate
SubmitTasks ==
    /\ gpc = "scrape"
    /\ source > NUM_SOURCES
    /\ task' = [i \in 1..Len(all_proxies) |-> "pending"]
    /\ verdict' = [i \in 1..Len(all_proxies) |-> "none"]
    /\ results' = [i \in 1..Len(all_proxies) |-> "unset"]
    /\ gpc' = "validate"
    /\ UNCHANGED << max_proxies, all_proxies, source, working_proxies, pool,
                    fetchVars, identityVars, extractVars, recordVars,
                    workflowVars >>

\* A free worker of the pool takes the next task of the queue.
TaskStart ==
    /\ gpc = "validate"
    /\ Cardinality({i \in DOMAIN task : task[i] = "running"}) < MAX_WORKERS
    /\ \E i \in DOMAIN task :
         /\ task[i] = "pending"
         /\ \A j \in 1..(i - 1) : task[j] # "pending"
         /\ task' = [task EXCEPT ![i] = "running"]
    /\ UNCHANGED << max_proxies, gpc, all_proxies, source, verdict, results,
                    working_proxies, pool, fetchVars, identityVars, extractVars, recordVars,
                    workflowVars >>

\* A running test_proxy call ends, in any order among the running ones.
TaskFinish ==
    /\ gpc = "validate"
    /\ \E i \in DOMAIN task, v \in Verdicts :
         /\ task[i] = "running"
         /\ task' = [task EXCEPT ![i] = "done"]
         /\ verdict' = [verdict EXCEPT ![i] = v]
         /\ results' = [results EXCEPT ![i] = test_proxy(all_proxies[i], v)]
    /\ UNCHANGED << max_proxies, gpc, all_proxies, source, working_proxies, pool,
                    fetchVars, identityVars, extractVars, recordVars,
                    workflowVars >>

\* line 207-215: list(executor.map(...)) has every result; filter, extend, cut
Collect ==
    /\ gpc = "validate"
    /\ \A i \in DOMAIN task : task[i] = "done"
    /\ working_proxies' = working(results)
    /\ pool' = build_pool(working_proxies', max_proxies)
    /\ gpc' = "done"
    /\ UNCHANGED << max_proxies, all_proxies, source, task, verdict, results,
                    fetchVars, identityVars, extractVars, recordVars,
                    workflowVars >>

CapArgs == (0..MaxCap) \cup {DEFAULT_MAX_PROXIES}

DiscoverInit ==
    /\ max_proxies \in CapArgs
    /\ gpc = "scrape"
    /\ all_proxies = <<>>
    /\ source = 1
    /\ task = <<>>
    /\ verdict = <<>>
    /\ results = <<>>
    /\ working_proxies = <<>>
    /\ pool = <<>>
    /\ cpc = "ready"
    /\ read_outcome = "none"
    /\ robots_reads = 0
    /\ answer = NoAnswer
    /\ soup = <<>>
    /\ page_urls = <<>>
    /\ prev_urls = <<>>
    /\ extractions = 0
    /\ markup = <<>>
    /\ product = NoProduct
    /\ backoff = NoBackoff
    /\ analysis = NoAnalysis
    /\ search = NoSearch
    /\ detail = NoDetail
    /\ enhanced = FALSE
    /\ respect_robots = FALSE
    /\ robot_parser = None
    /\ disallowed = {}
    /\ ua = None
    /\ proxies = << None >>
    /\ session_warmed = FALSE
    /\ request_count = 0
    /\ stack = <<>>
    /\ ret = NoRet
    /\ calls = 0

DiscoverNext ==
    \/ ScrapeSource
    \/ SubmitTasks
    \/ TaskStart
    \/ TaskFinish
    \/ Collect

DiscoverSpec == DiscoverInit /\ [][DiscoverNext]_vars

(***************************************************************************)
(* Construction and the identity/gate interface                            *)
(*   AmazonScraper.__init__, setup_robots_parser, can_fetch,               *)
(*   get_random_user_agent, get_enhanced_headers (base and enhanced)       *)
(***************************************************************************)
\* What robot_parser.read() can do (urllib.robotparser.RobotFileParser.read):
\* parse the file; raise URLError when the host cannot be reached; raise
\* UnicodeDecodeError on a body that is not UTF-8; swallow an HTTPError and
\* set disallow_all for 401/403, set allow_all for another 4xx, set nothing
\* for 5xx.
ReadOutcomes == {"ok", "URLError", "UnicodeDecodeError", "HTTP403", "HTTP404", "HTTP503"}

\* The ruleset of a parser that refuses every URL to every agent: disallow_all
\* after 401/403, and a parser whose last_checked was never set (5xx), for which
\* RobotFileParser.can_fetch returns False.
DisallowAll == user_agents \X URLs

\* setup_robots_parser: the parser and the ruleset it holds once read() has
\* ended with `outcome`; `rules` is the ruleset of a file that was parsed.
setup_robots_parser(outcome, rules) ==
    CASE outcome = "ok"      -> [robot_parser |-> "parser", disallowed |-> rules]
      [] outcome = "HTTP404" -> [robot_parser |-> "parser", disallowed |-> {}]
      [] outcome \in {"HTTP403", "HTTP503"} ->
                                [robot_parser |-> "parser", disallowed |-> DisallowAll]
      [] OTHER               -> [robot_parser |-> None, disallowed |-> {}]

\* What the user agent string says about the device.
IsMobile(agent) == agent = "Safari/iPhone"

PlatformOf(agent) ==
    CASE agent \in {"Chrome/Windows", "Firefox/Windows"} -> "Windows"
      [] agent = "Safari/Mac"    -> "macOS"
      [] agent = "Chrome/Linux"  -> "Linux"
      [] OTHER                   -> "iOS"

\* enhanced_scraper.py:75: the widths of viewport_sizes, all desktop screens
viewport_sizes == {1920, 1366, 1536, 1440}

\* amazon_scraper.py:392-409: the header set of the base class; the client
\* hints are literals, Viewport-Width is not sent (0).
base_headers(agent) ==
    [agent |-> agent, mobile |-> "?0", platform |-> "Windows", viewport |-> 0]

\* get_enhanced_headers(url): the header sets a call can produce; the enhanced
\* class adds Viewport-Width from viewport_sizes. "raise": the identity source
\* raised.
get_enhanced_headers ==
    { IF agent = "raise" THEN [value |-> "raise", headers |-> NoHeaders]
      ELSE [value |-> "headers",
            headers |-> IF enhanced
                        THEN [base_headers(agent) EXCEPT !.viewport = w]
                        ELSE base_headers(agent)] :
      agent \in get_random_user_agent, w \in viewport_sizes }

\* amazon_scraper.py:103-115: self.ua = UserAgent(), or the hard-coded pool
SetupUserAgents ==
    /\ cpc = "agents"
    /\ ua' \in {"UserAgent", None}
    /\ cpc' = "robots"
    /\ UNCHANGED << enhanced, respect_robots, robot_parser, disallowed, proxies,
                    session_warmed, request_count, stack, ret, calls,
                    read_outcome, robots_reads, answer,
                    discoverVars, extractVars, recordVars, workflowVars >>

\* amazon_scraper.py:117-135: the ruleset is read only when the gate is enabled
SetupRobotsParser ==
    /\ cpc = "robots"
    /\ IF respect_robots
       THEN \E outcome \in ReadOutcomes :
              \E rules \in (IF outcome = "ok" THEN RuleSets ELSE {{}}) :
                 /\ robot_parser' = setup_robots_parser(outcome, rules).robot_parser
                 /\ disallowed' = setup_robots_parser(outcome, rules).disallowed
                 /\ read_outcome' = outcome
                 /\ robots_reads' = robots_reads + 1
       ELSE UNCHANGED << robot_parser, disallowed, read_outcome, robots_reads >>
    /\ cpc' = "ready"
    /\ UNCHANGED << enhanced, respect_robots, ua, proxies,
                    session_warmed, request_count, stack, ret, calls, answer,
                    discoverVars, extractVars, recordVars, workflowVars >>

\* A call of can_fetch(url) on the constructed scraper.
CallCanFetch ==
    /\ cpc = "ready"
    /\ \E url \in URLs : \E v \in can_fetch(url) :
         answer' = [op |-> "can_fetch", url |-> url, value |-> v, headers |-> NoHeaders]
    /\ UNCHANGED << fetchVars, cpc, read_outcome, robots_reads,
                    discoverVars, extractVars, recordVars, workflowVars >>

\* A call of get_random_user_agent().
CallGetRandomUserAgent ==
    /\ cpc = "ready"
    /\ \E agent \in get_random_user_agent :
         answer' = [op |-> "get_random_user_agent", url |-> "", value |-> agent,
                    headers |-> NoHeaders]
    /\ UNCHANGED << fetchVars, cpc, read_outcome, robots_reads,
                    discoverVars, extractVars, recordVars, workflowVars >>

\* A call of get_enhanced_headers(url).
CallGetEnhancedHeaders ==
    /\ cpc = "ready"
    /\ \E url \in URLs, h \in get_enhanced_headers :
         answer' = [op |-> "get_enhanced_headers", url |-> url, value |-> h.value,
                    headers |-> h.headers]
    /\ UNCHANGED << fetchVars, cpc, read_outcome, robots_reads,
                    discoverVars, extractVars, recordVars, workflowVars >>

\* The object at the start of __init__ (line 91-97); use_proxies is False.
IdentityInit ==
    /\ cpc = "agents"
    /\ enhanced \in BOOLEAN
    /\ respect_robots \in BOOLEAN
    /\ robot_parser = None
    /\ disallowed = {}
    /\ ua = None
    /\ proxies = << None >>
    /\ session_warmed = FALSE
    /\ request_count = 0
    /\ stack = <<>>
    /\ ret = NoRet
    /\ calls = 0
    /\ read_outcome = "none"
    /\ robots_reads = 0
    /\ answer = NoAnswer
    /\ max_proxies = 0
    /\ gpc = "idle"
    /\ all_proxies = <<>>
    /\ source = 0
    /\ task = <<>>
    /\ verdict = <<>>
    /\ results = <<>>
    /\ working_proxies = <<>>
    /\ pool = <<>>
    /\ soup = <<>>
    /\ page_urls = <<>>
    /\ prev_urls = <<>>
    /\ extractions = 0
    /\ markup = <<>>
    /\ product = NoProduct
    /\ backoff = NoBackoff
    /\ analysis = NoAnalysis
    /\ search = NoSearch
    /\ detail = NoDetail

IdentityNext ==
    \/ SetupUserAgents
    \/ SetupRobotsParser
    \/ CallCanFetch
    \/ CallGetRandomUserAgent
    \/ CallGetEnhancedHeaders

IdentitySpec == IdentityInit /\ [][IdentityNext]_vars

(***************************************************************************)
(* AmazonScraper._extract_product_urls_comprehensive                       *)
(*   with _extract_urls_from_card and _clean_product_url                   *)
(*   (amazon_scraper.py:463-618)                                           *)
(* A URL is a record of the parts urlparse gives: host, path (its          *)
(* segments), query (the names of its parameters) and fragment.            *)
(***************************************************************************)
MaxNodes == 2          \* elements of a parsed search page
MaxExtractions == 2    \* extractions run on one page

\* amazon_scraper.py:61, the host of BASE_URL
BASE_HOST == "www.amazon.com"

\* amazon_scraper.py:477-484, the number of primary_selectors
NUM_PRIMARY == 6

\* The href values of the links of a page.
Hrefs ==
    { Url("", << "dp", "B000000001" >>, {}, FALSE),
      Url("", << "Widget", "dp", "B000000001" >>, {"ref", "tag"}, TRUE),
      Url("www.amazon.com", << "gp", "product", "B000000002" >>, {"tag"}, FALSE),
      Url("amazon.com.evil.net", << "dp", "B000000001" >>, {}, FALSE),
      Url("example.org", << "dp", "B000000001" >>, {}, FALSE),
      Url("", << "exec", "obidos", "ASIN", "B000000003" >>, {}, FALSE),
      Url("", << "s" >>, {"k"}, FALSE) }

\* The strings of exactly ten characters out of [A-Z0-9] among those the model
\* uses ([A-Z0-9]{10}; all of them are alphanumeric).
TenUpperAlnum == {"B000000001", "B000000002", "B000000003", "B000000004",
                  "B000000005", "1234567890", "ABCDEFGHIJ"}

\* str.isdigit()
isdigit(s) == s = "1234567890"

\* str.startswith('B')
startswith_B(s) == s \in {"B000000001", "B000000002", "B000000003", "B000000004",
                          "B000000005", "B0000004"}

\* '/dp/' in path
has_dp(path) == \E i \in 1..(Len(path) - 1) : path[i] = "dp"

\* '/gp/product/' in path
has_gp_product(path) ==
    \E i \in 1..(Len(path) - 2) : path[i] = "gp" /\ path[i + 1] = "product"

\* '/dp/' in s or '/gp/product/' in s   (line 573 on the href, line 593 on
\* parsed.path; no host or query of the model contains a slash)
has_product_segment(path) == has_dp(path) \/ has_gp_product(path)

\* 'amazon.com' in parsed.netloc
contains_amazon(host) ==
    host \in {"www.amazon.com", "aax-us-east.amazon.com", "amazon.com.evil.net"}

\* The host is amazon.com or a subdomain of it.
on_amazon_host(host) == host \in {"www.amazon.com", "aax-us-east.amazon.com"}

\* urljoin(BASE_URL, href)
urljoin(href) == IF href.host = "" THEN [href EXCEPT !.host = BASE_HOST] ELSE href

\* amazon_scraper.py:581-618
_clean_product_url(url) ==
    IF ~contains_amazon(url.host) THEN NoUrl
    ELSE IF ~has_product_segment(url.path) THEN NoUrl
    ELSE Url(url.host, url.path, url.query \cap {"ref"}, FALSE)

\* f"{BASE_URL}/dp/{asin}"
ProductUrl(asin) == Url(BASE_HOST, << "dp", asin >>, {}, FALSE)

RECURSIVE Concat(_)
Concat(seqs) == IF seqs = <<>> THEN <<>> ELSE Head(seqs) \o Concat(Tail(seqs))

\* An element of the page: a result card matched by primary selector `sel` with
\* one link in it, a link outside any card, another element with a data-asin
\* attribute, or a run of text.
Node(kind, sel, href, asin, text) ==
    [kind |-> kind, sel |-> sel, href |-> href, asin |-> asin, text |-> text]

CardHrefs ==
    { NoHref,
      Url("", << "dp", "B000000001" >>, {}, FALSE),
      Url("", << "Widget", "dp", "B000000001" >>, {"ref", "tag"}, TRUE),
      Url("amazon.com.evil.net", << "dp", "B000000001" >>, {}, FALSE),
      Url("example.org", << "dp", "B000000001" >>, {}, FALSE) }

\* Selector 1 is div[data-component-type="s-search-result"], selector 4 is
\* div[data-asin]:not([data-asin=""]), whose cards carry a data-asin.
Nodes ==
    {Node("card", 1, h, "", "") : h \in CardHrefs}
    \cup {Node("card", 4, h, "B000000004", "") : h \in CardHrefs}
    \cup {Node("a", 0, h, "", "") : h \in Hrefs}
    \cup {Node("asin", 0, NoHref, a, "") : a \in {"B000000004", "B0000004"}}
    \cup {Node("text", 0, NoHref, "", t) : t \in {"B000000005", "1234567890", "ABCDEFGHIJ"}}

Pages == UNION {[1..n -> Nodes] : n \in 0..MaxNodes}

\* line 553-579: the URLs of one card, as the finds of its link
_extract_urls_from_card(card) ==
    IF card.href # NoHref /\ has_product_segment(card.href.path)
          /\ _clean_product_url(urljoin(card.href)) # NoUrl
    THEN << _clean_product_url(urljoin(card.href)) >>
    ELSE <<>>

\* line 487-493: the finds in the cards of primary selector k
selector_finds(page, k) ==
    Concat([i \in 1..Len(page) |->
              IF page[i].kind = "card" /\ page[i].sel = k
              THEN _extract_urls_from_card(page[i]) ELSE <<>>])

\* line 486-496: the selectors in order, stopping at the first with a find
RECURSIVE primary_from(_, _)
primary_from(page, k) ==
    IF k > NUM_PRIMARY THEN <<>>
    ELSE IF selector_finds(page, k) # <<>> THEN selector_finds(page, k)
    ELSE primary_from(page, k + 1)

structural(page) == primary_from(page, 1)

\* line 504-509: how many of the four product_patterns match the href
patterns_matching(href) ==
    LET p == href.path
        dp == \E i \in 1..(Len(p) - 1) : p[i] = "dp" /\ p[i + 1] \in TenUpperAlnum
        gp == \E i \in 1..(Len(p) - 2) :
                 p[i] = "gp" /\ p[i + 1] = "product" /\ p[i + 2] \in TenUpperAlnum
        ob == \E i \in 1..(Len(p) - 3) :
                 /\ p[i] = "exec" /\ p[i + 1] = "obidos" /\ p[i + 2] = "ASIN"
                 /\ p[i + 3] \in TenUpperAlnum
        am == contains_amazon(href.host) /\ dp
    IN  (IF dp THEN 1 ELSE 0) + (IF gp THEN 1 ELSE 0) + (IF ob THEN 1 ELSE 0)
        + (IF am THEN 1 ELSE 0)

\* line 511-520: every link of the document, once per pattern that matches
link_pattern(page) ==
    Concat([i \in 1..Len(page) |->
              IF page[i].href # NoHref /\ _clean_product_url(urljoin(page[i].href)) # NoUrl
              THEN [n \in 1..patterns_matching(page[i].href) |->
                       _clean_product_url(urljoin(page[i].href))]
              ELSE <<>>])

\* line 527-533: every element with a data-asin of ten alphanumeric characters
data_asin(page) ==
    Concat([i \in 1..Len(page) |->
              IF page[i].asin \in TenUpperAlnum
              THEN << ProductUrl(page[i].asin) >> ELSE <<>>])

\* line 540-549: every ten-character token of the text that starts with B or is
\* not all digits
free_text(page) ==
    Concat([i \in 1..Len(page) |->
              IF page[i].text \in TenUpperAlnum
                    /\ (startswith_B(page[i].text) \/ ~isdigit(page[i].text))
              THEN << ProductUrl(page[i].text) >> ELSE <<>>])

\* Variant: every strategy contributes, whatever the earlier ones found.
all_strategies(page) ==
    structural(page) \o link_pattern(page) \o data_asin(page) \o free_text(page)

\* line 474-549: the finds that reach product_urls: each later strategy runs
\* only `if not product_urls`.
finds(page) ==
    IF structural(page) # <<>> THEN structural(page)
    ELSE IF link_pattern(page) # <<>> THEN link_pattern(page)
    ELSE IF data_asin(page) # <<>> THEN data_asin(page)
    ELSE free_text(page)

\* Variant: product_urls is a list, returned as it was filled.
as_filled(found) == {found}

\* product_urls = set(); add/update; return list(product_urls): the lists the
\* call can return, the order of a set's elements not being determined.
list_of_set(found) ==
    {q \in [1..Cardinality(Range(found)) -> Range(found)] :
        \A i, j \in DOMAIN q : q[i] = q[j] => i = j}

\* One call of _extract_product_urls_comprehensive(soup, page_num).
ExtractProductUrls ==
    /\ extractions < MaxExtractions
    /\ \E urls \in list_of_set(finds(soup)) :
         /\ page_urls' = urls
         /\ prev_urls' = page_urls
    /\ extractions' = extractions + 1
    /\ UNCHANGED << soup, fetchVars, discoverVars, identityVars, recordVars, workflowVars >>

ExtractInit ==
    /\ soup \in Pages
    /\ page_urls = <<>>
    /\ prev_urls = <<>>
    /\ extractions = 0
    /\ enhanced = FALSE
    /\ respect_robots = FALSE
    /\ robot_parser = None
    /\ disallowed = {}
    /\ ua = None
    /\ proxies = << None >>
    /\ session_warmed = FALSE
    /\ request_count = 0
    /\ stack = <<>>
    /\ ret = NoRet
    /\ calls = 0
    /\ max_proxies = 0
    /\ gpc = "idle"
    /\ all_proxies = <<>>
    /\ source = 0
    /\ task = <<>>
    /\ verdict = <<>>
    /\ results = <<>>
    /\ working_proxies = <<>>
    /\ pool = <<>>
    /\ cpc = "ready"
    /\ read_outcome = "none"
    /\ robots_reads = 0
    /\ answer = NoAnswer
    /\ markup = <<>>
    /\ product = NoProduct
    /\ backoff = NoBackoff
    /\ analysis = NoAnalysis
    /\ search = NoSearch
    /\ detail = NoDetail

ExtractNext == ExtractProductUrls

ExtractSpec == ExtractInit /\ [][ExtractNext]_vars

(***************************************************************************)
(* AmazonScraper.extract_product_details   (amazon_scraper.py:635-790)     *)
(* The parsed product page is the sequence of its elements in document     *)
(* order, each with the selector class it belongs to and the text          *)
(* get_text(strip=True) gives for it.                                      *)
(***************************************************************************)
MaxElements == 2       \* elements of a parsed product page

NoElement == [kind |-> "None", text |-> ""]

ElementKinds == {"#productTitle", "span.a-price .a-offscreen", "#priceblock_ourprice",
                 "#priceblock_dealprice", "div.a-price .a-offscreen", "#availability",
                 "#productDescription"}

Elements == [kind : ElementKinds, text : {"", "19.99", "24.99"}]

ProductPages == UNION {[1..n -> Elements] : n \in 0..MaxElements}

\* soup.select_one(selector): the first element in document order that the
\* selector matches, None without one; `kinds` are the elements it matches.
select_one(page, kinds) ==
    IF \E i \in 1..Len(page) : page[i].kind \in kinds
    THEN page[CHOOSE i \in 1..Len(page) :
                 /\ page[i].kind \in kinds
                 /\ \A j \in 1..(i - 1) : page[j].kind \notin kinds]
    ELSE NoElement

\* line 688-693: the price candidates in their order; the fourth selector,
\* .a-price .a-offscreen, also matches what the first one matches.
price_selectors ==
    << {"span.a-price .a-offscreen"},
       {"#priceblock_ourprice"},
       {"#priceblock_dealprice"},
       {"span.a-price .a-offscreen", "div.a-price .a-offscreen"} >>

price_elements(page) == [k \in 1..Len(price_selectors) |-> select_one(page, price_selectors[k])]

\* Variant: the price element that comes first in the document wins.
price_in_document_order(page) ==
    select_one(page, UNION {price_selectors[k] : k \in 1..Len(price_selectors)}).text

\* line 687-699: price = None; the text of the first element of price_elements
\* that is not None; "None" stands for Python's None.
price_of(page) ==
    IF \E k \in 1..Len(price_selectors) : price_elements(page)[k] # NoElement
    THEN price_elements(page)[CHOOSE k \in 1..Len(price_selectors) :
                                 /\ price_elements(page)[k] # NoElement
                                 /\ \A j \in 1..(k - 1) : price_elements(page)[j] = NoElement].text
    ELSE "None"

\* line 676-786: the dict built from the page. 'title' and 'availability' are
\* set under `if element:`; 'price' and 'description' are assigned always.
\* (scraped_at, features, details and images are assigned always as well and
\* rating and reviews_count conditionally; they are not kept here.)
build_product(url, page) ==
    LET title == select_one(page, {"#productTitle"})
        availability == select_one(page, {"#availability"})
        desc == select_one(page, {"#productDescription"})
        keys == {"url", "price", "description"}
                \cup (IF title # NoElement THEN {"title"} ELSE {})
                \cup (IF availability # NoElement THEN {"availability"} ELSE {})
    IN  [key \in keys |->
            CASE key = "url"          -> url
              [] key = "title"        -> title.text
              [] key = "price"        -> price_of(page)
              [] key = "availability" -> availability.text
              [] OTHER                -> IF desc # NoElement THEN desc.text ELSE ""]

\* line 655-666: a scraper that was not extended with the Selenium extractor
\* has no extract_with_selenium, so the call goes to self.make_request(url)
\* with the default retries.
CallExtractProductDetails ==
    /\ stack = <<>>
    /\ calls < MaxCalls
    /\ stack' = << [Frame("X", PRODUCT, 0) EXCEPT !.pc = "fetch"],
                   Frame("B", PRODUCT, MAX_RETRIES) >>
    /\ calls' = calls + 1
    /\ ret' = NoRet
    /\ markup' = <<>>
    /\ product' = NoProduct
    /\ UNCHANGED << enhanced, respect_robots, robot_parser, disallowed, ua, proxies,
                    session_warmed, request_count,
                    discoverVars, identityVars, extractVars, workflowVars >>

\* line 666-790: what the call hands back once make_request has ended with
\* `outcome`. Its exception is not caught here; a failure gives None; otherwise
\* the page is parsed and the dict is built inside try/except Exception, which
\* turns an exception of any step into None.
record_of(outcome, url, page, step_error) ==
    IF outcome = "raised"
    THEN [result |-> "raise", fetch |-> outcome, fields |-> NoFields]
    ELSE IF outcome # "success" \/ step_error
    THEN [result |-> "None", fetch |-> outcome, fields |-> NoFields]
    ELSE [result |-> "record", fetch |-> outcome, fields |-> build_product(url, page)]

\* line 666-790: make_request has ended.
BuildRecord ==
    /\ Running("X", "fetch")
    /\ ret.cls = "B"
    /\ stack' = Pop
    /\ \E page \in ProductPages, step_error \in BOOLEAN :
         /\ product' = record_of(ret.outcome, Top.url, page, step_error)
         /\ markup' = IF ret.outcome = "success" THEN page ELSE markup
    /\ ret' = NoRet
    /\ UNCHANGED << enhanced, respect_robots, robot_parser, disallowed, ua, proxies,
                    session_warmed, request_count, calls,
                    discoverVars, identityVars, extractVars, workflowVars >>

RecordInit ==
    /\ enhanced = FALSE
    /\ respect_robots \in BOOLEAN
    /\ robot_parser = (IF respect_robots THEN "parser" ELSE None)
    /\ disallowed \in (IF robot_parser = "parser" THEN {{}, Rules({PRODUCT}, {})} ELSE {{}})
    /\ ua = None
    /\ proxies = << None >>
    /\ session_warmed = FALSE
    /\ request_count = 0
    /\ stack = <<>>
    /\ ret = NoRet
    /\ calls = 0
    /\ max_proxies = 0
    /\ gpc = "idle"
    /\ all_proxies = <<>>
    /\ source = 0
    /\ task = <<>>
    /\ verdict = <<>>
    /\ results = <<>>
    /\ working_proxies = <<>>
    /\ pool = <<>>
    /\ cpc = "ready"
    /\ read_outcome = "none"
    /\ robots_reads = 0
    /\ answer = NoAnswer
    /\ soup = <<>>
    /\ page_urls = <<>>
    /\ prev_urls = <<>>
    /\ extractions = 0
    /\ markup = <<>>
    /\ product = NoProduct
    /\ backoff = NoBackoff
    /\ analysis = NoAnalysis
    /\ search = NoSearch
    /\ detail = NoDetail

RecordNext ==
    \/ CallExtractProductDetails
    \/ GateCheck
    \/ PreRequestDelay
    \/ SelectProxy
    \/ Attempt
    \/ Exhausted
    \/ BuildRecord

RecordSpec == RecordInit /\ [][RecordNext]_vars

(***************************************************************************)
(* The sleeps between the attempts of one fetch call                       *)
(*   AmazonScraper.make_request       (amazon_scraper.py:321-369), which   *)
(*     EnhancedAmazonScraper inherits                                      *)
(*   GoogleNewsScraper.make_request   (google_news_scraper.py:170-193)     *)
(*   PlayStoreScraper.make_request    (play_store_scraper.py:193-216)      *)
(* Times are whole seconds: a draw of random.uniform(a, b) is any of a..b. *)
(***************************************************************************)
MaxAttempts == 3       \* `retries` arguments range over 1..MaxAttempts

\* The default delay_range of each constructor.
delay_range_of(fetcher) ==
    CASE fetcher = "amazon"   -> << 3, 7 >>      \* amazon_scraper.py:82
      [] fetcher = "enhanced" -> << 5, 12 >>     \* enhanced_scraper.py:31
      [] fetcher = "news"     -> << 1, 3 >>      \* google_news_scraper.py:77
      [] OTHER                -> << 2, 5 >>      \* play_store_scraper.py:100

\* Variant: the factor counts the attempts left.
backoff_time_shrinking(attempt, draw) == (MAX_RETRIES - attempt) * draw

\* amazon_scraper.py:367: (attempt + 1) * random.uniform(delay_range[0], delay_range[1])
backoff_time(attempt, draw) == (attempt + 1) * draw

\* google_news_scraper.py:190, play_store_scraper.py:213:
\* random.uniform(*[x*2 for x in self.delay_range])
doubled_range_draws(lo, hi) == (lo * 2)..(hi * 2)

\* The sleeps that can follow a failed attempt with index `attempt`: which
\* sleep it is, the number drawn and the time slept.
sleeps_after_failure(fetcher, lo, hi, attempt, kind) ==
    IF fetcher \in {"amazon", "enhanced"}
    THEN CASE sleep_after(kind) = "elevated" ->
                {[attempt |-> attempt, sleep |-> "elevated", draw |-> d, delay |-> d] :
                    d \in 10..15}
           [] sleep_after(kind) = "none" ->
                {[attempt |-> attempt, sleep |-> "none", draw |-> 0, delay |-> 0]}
           [] OTHER ->
                {[attempt |-> attempt, sleep |-> "backoff", draw |-> d,
                  delay |-> backoff_time(attempt, d)] : d \in lo..hi}
    ELSE {[attempt |-> attempt, sleep |-> "backoff", draw |-> d, delay |-> d] :
             d \in doubled_range_draws(lo, hi)}

\* One iteration of `for attempt in range(retries)` that ends in a failure.
\* The Amazon loop tells five classes of failure apart; the other two treat
\* every status but 200 and every RequestException alike.
FailedAttempt ==
    /\ backoff.fetcher # "none"
    /\ backoff.pc = "loop"
    /\ Len(backoff.delays) < backoff.retries
    /\ \E kind \in (IF backoff.fetcher \in {"amazon", "enhanced"}
                   THEN {"soft202", "blocked", "implausible", "http", "transport"}
                   ELSE {"http", "transport"}) :
         \E s \in sleeps_after_failure(backoff.fetcher, backoff.lo, backoff.hi,
                                       Len(backoff.delays), kind) :
            backoff' = [backoff EXCEPT !.delays = Append(@, s)]
    /\ UNCHANGED << fetchVars, discoverVars, identityVars, extractVars, recordVars,
                    analysis, search, detail >>

\* An iteration that returns (True, response).
SucceededAttempt ==
    /\ backoff.fetcher # "none"
    /\ backoff.pc = "loop"
    /\ Len(backoff.delays) < backoff.retries
    /\ backoff' = [backoff EXCEPT !.pc = "success"]
    /\ UNCHANGED << fetchVars, discoverVars, identityVars, extractVars, recordVars,
                    analysis, search, detail >>

\* The loop has run `retries` times: (False, "Failed after ... attempts").
AttemptsExhausted ==
    /\ backoff.fetcher # "none"
    /\ backoff.pc = "loop"
    /\ Len(backoff.delays) = backoff.retries
    /\ backoff' = [backoff EXCEPT !.pc = "exhausted"]
    /\ UNCHANGED << fetchVars, discoverVars, identityVars, extractVars, recordVars,
                    analysis, search, detail >>

\* A fetch call of one of the scrapers, built with its default delay_range,
\* has passed its gate and its pre-request sleep.
BackoffInit ==
    /\ backoff \in {[fetcher |-> f, pc |-> "loop",
                     lo |-> delay_range_of(f)[1], hi |-> delay_range_of(f)[2],
                     retries |-> r, delays |-> <<>>] :
                       f \in {"amazon", "enhanced", "news", "play"},
                       r \in 1..MaxAttempts}
    /\ analysis = NoAnalysis
    /\ search = NoSearch
    /\ detail = NoDetail
    /\ enhanced = FALSE
    /\ respect_robots = FALSE
    /\ robot_parser = None
    /\ disallowed = {}
    /\ ua = None
    /\ proxies = << None >>
    /\ session_warmed = FALSE
    /\ request_count = 0
    /\ stack = <<>>
    /\ ret = NoRet
    /\ calls = 0
    /\ max_proxies = 0
    /\ gpc = "idle"
    /\ all_proxies = <<>>
    /\ source = 0
    /\ task = <<>>
    /\ verdict = <<>>
    /\ results = <<>>
    /\ working_proxies = <<>>
    /\ pool = <<>>
    /\ cpc = "ready"
    /\ read_outcome = "none"
    /\ robots_reads = 0
    /\ answer = NoAnswer
    /\ soup = <<>>
    /\ page_urls = <<>>
    /\ prev_urls = <<>>
    /\ extractions = 0
    /\ markup = <<>>
    /\ product = NoProduct

BackoffNext ==
    \/ FailedAttempt
    \/ SucceededAttempt
    \/ AttemptsExhausted

BackoffSpec == BackoffInit /\ [][BackoffNext]_vars

(***************************************************************************)
(* The analyzers                                                           *)
(*   AmazonScraper.analyze_search_rankings  (amazon_scraper.py:792-879)    *)
(*   PlayStoreScraper.analyze_apps      (play_store_scraper.py:436-560)    *)
(*   GoogleNewsScraper.analyze_news     (google_news_scraper.py:315-416)   *)
(* A record of the collection carries the keys the price statistic reads,  *)
(* "absent" for a key the dict does not have; amounts are in cents; a      *)
(* statistic is <<>> for None and << n >> for the number n.                *)
(***************************************************************************)
MaxRecords == 2        \* records of a collection

\* re.sub(r'[^\d.]', '', price_text) on the price texts of the model
strip_non_numeric(text) ==
    CASE text = "$4.50"  -> "4.50"
      [] text = "$19.99" -> "19.99"
      [] text = "N/A"    -> ""
      [] OTHER           -> text

\* Variant: a text that is no number counts as zero.
float_or_zero(text) ==
    CASE text = "0"     -> << 0 >>
      [] text = "4.50"  -> << 450 >>
      [] text = "19.99" -> << 1999 >>
      [] OTHER          -> << 0 >>

\* float(text) inside try/except with `pass`: the number, or nothing after
\* the ValueError
float(text) ==
    CASE text = "0"     -> << 0 >>
      [] text = "4.50"  -> << 450 >>
      [] text = "19.99" -> << 1999 >>
      [] OTHER          -> <<>>

\* The `prices` list: amazon_scraper.py:844-854 reads a truthy 'price';
\* play_store_scraper.py:499-504 reads the 'price' of an app whose is_free is
\* False; analyze_news reads no price.
prices_of(analyzer, items) ==
    Concat([i \in 1..Len(items) |->
              CASE analyzer = "rankings" ->
                     IF items[i].price \notin {"absent", ""}
                     THEN float(strip_non_numeric(items[i].price)) ELSE <<>>
                [] analyzer = "apps" ->
                     IF items[i].price # "absent" /\ items[i].is_free = "False"
                     THEN float(items[i].price) ELSE <<>>
                [] OTHER -> <<>>])

RECURSIVE sum(_)
sum(prices) == IF prices = <<>> THEN 0 ELSE Head(prices) + sum(Tail(prices))

\* The dict an analyzer returns for a non-empty collection, as far as the price
\* statistic goes: min, max and sum(prices) / len(prices) under `if prices:`,
\* the initial values otherwise (average is 0 in analyze_search_rankings and
\* None in analyze_apps); a division by len(prices) = 0 raises.
price_statistics(analyzer, prices) ==
    IF prices # <<>>
    THEN [kind |-> IF Len(prices) = 0 THEN "ZeroDivisionError" ELSE "analysis",
          min |-> << CHOOSE x \in Range(prices) : \A y \in Range(prices) : x <= y >>,
          max |-> << CHOOSE x \in Range(prices) : \A y \in Range(prices) : x >= y >>,
          average |-> IF Len(prices) = 0 THEN <<>> ELSE << sum(prices) \div Len(prices) >>,
          used |-> Len(prices)]
    ELSE [kind |-> "analysis", min |-> <<>>, max |-> <<>>,
          average |-> IF analyzer = "rankings" THEN << 0 >> ELSE <<>>,
          used |-> 0]

\* One call of an analyzer: `if not products: return {"error": ...}` first.
Analyze ==
    /\ analysis.analyzer # "none"
    /\ analysis.kind = "unset"
    /\ LET r == price_statistics(analysis.analyzer,
                                 prices_of(analysis.analyzer, analysis.items))
       IN  analysis' =
             IF analysis.given = "None" \/ analysis.items = <<>>
             THEN [analysis EXCEPT !.kind = "error"]
             ELSE [analysis EXCEPT !.kind = r.kind, !.min = r.min, !.max = r.max,
                                   !.average = r.average, !.used = r.used]
    /\ UNCHANGED << fetchVars, discoverVars, identityVars, extractVars, recordVars,
                    backoff, search, detail >>

\* The argument of the call: None, or a list of dicts.
AnalyzeInit ==
    /\ analysis \in
         {[NoAnalysis EXCEPT !.analyzer = a, !.given = "None"] :
             a \in {"rankings", "apps", "news"}}
         \cup UNION {
           {[NoAnalysis EXCEPT !.analyzer = "rankings", !.given = "list", !.items = q] :
               q \in [1..n -> [price : {"absent", "", "0", "$4.50", "$19.99", "N/A"},
                               is_free : {"absent"}]]}
           \cup
           {[NoAnalysis EXCEPT !.analyzer = "apps", !.given = "list", !.items = q] :
               q \in [1..n -> [price : {"absent", "", "0", "4.50", "$4.50"},
                               is_free : {"absent", "True", "False"}]]}
           \cup
           {[NoAnalysis EXCEPT !.analyzer = "news", !.given = "list", !.items = q] :
               q \in [1..n -> [price : {"absent"}, is_free : {"absent"}]]}
           : n \in 0..MaxRecords}
    /\ backoff = NoBackoff
    /\ search = NoSearch
    /\ detail = NoDetail
    /\ enhanced = FALSE
    /\ respect_robots = FALSE
    /\ robot_parser = None
    /\ disallowed = {}
    /\ ua = None
    /\ proxies = << None >>
    /\ session_warmed = FALSE
    /\ request_count = 0
    /\ stack = <<>>
    /\ ret = NoRet
    /\ calls = 0
    /\ max_proxies = 0
    /\ gpc = "idle"
    /\ all_proxies = <<>>
    /\ source = 0
    /\ task = <<>>
    /\ verdict = <<>>
    /\ results = <<>>
    /\ working_proxies = <<>>
    /\ pool = <<>>
    /\ cpc = "ready"
    /\ read_outcome = "none"
    /\ robots_reads = 0
    /\ answer = NoAnswer
    /\ soup = <<>>
    /\ page_urls = <<>>
    /\ prev_urls = <<>>
    /\ extractions = 0
    /\ markup = <<>>
    /\ product = NoProduct

AnalyzeNext == Analyze

AnalyzeSpec == AnalyzeInit /\ [][AnalyzeNext]_vars

(***************************************************************************)
(* search_products                                                         *)
(*   AmazonScraper.search_products           (amazon_scraper.py:413-461)   *)
(*   EnhancedAmazonScraper.search_products   (enhanced_scraper.py:118-156) *)
(*   EnhancedAmazonScraper._fallback_search  (enhanced_scraper.py:158-205) *)
(* The call is frame "S"; every page is fetched by self.make_request and   *)
(* parsed by _extract_product_urls_comprehensive, whose list goes into a   *)
(* set (or, in the fallback, into a list that set() is applied to).        *)
(***************************************************************************)
MaxPages == 2          \* max_pages arguments range over 1..MaxPages
MaxLinks == 2          \* product links of one search page

SEARCH == "https://www.amazon.com/s?k=query"

\* The links a search page can carry: a product link, a sponsored link that
\* wraps the address of the same product, and a sponsored redirect link with
\* the product identifier behind more than one path segment.
SearchPages ==
    UNION {[1..n -> {Node("a", 0, h, "", "") : h \in
              { Url("", << "dp", "B000000001" >>, {}, FALSE),
                Url("aax-us-east.amazon.com",
                    << "x", "c", "https:", "", "www.amazon.com", "dp", "B000000001" >>,
                    {"tag"}, FALSE),
                Url("", << "gp", "slredirect", "picassoRedirect.html", "dp", "B000000002" >>,
                    {}, FALSE) }}] : n \in 0..MaxLinks}

\* 'aax-us' in url or '/gp/slredirect/' in url
is_ad(url) ==
    \/ url.host = "aax-us-east.amazon.com"
    \/ \E i \in 1..(Len(url.path) - 2) : url.path[i] = "gp" /\ url.path[i + 1] = "slredirect"

\* re.search(r'amazon\.com/([^/]+/)?dp/([A-Z0-9]{10})', url).group(2), "" when
\* there is no match: "amazon.com" closes the host or a path segment and is
\* followed by at most one segment before "dp".
asin_in(url) ==
    LET parts == << url.host >> \o url.path
        direct(i) == /\ i + 2 <= Len(parts)
                     /\ parts[i + 1] = "dp"
                     /\ parts[i + 2] \in TenUpperAlnum
        behind(i) == /\ i + 3 <= Len(parts)
                     /\ parts[i + 1] # ""
                     /\ parts[i + 2] = "dp"
                     /\ parts[i + 3] \in TenUpperAlnum
        at == {i \in 1..Len(parts) :
                  /\ parts[i] \in {"www.amazon.com", "aax-us-east.amazon.com"}
                  /\ (direct(i) \/ behind(i))}
        first == CHOOSE i \in at : \A j \in at : i <= j
    IN  IF at = {} THEN ""
        ELSE IF behind(first) THEN parts[first + 3] ELSE parts[first + 2]

\* Variant: a sponsored link with no recoverable identifier is kept as it is.
filter_ads_keeping(urls) ==
    Concat([i \in 1..Len(urls) |->
              IF is_ad(urls[i]) /\ asin_in(urls[i]) # ""
              THEN << ProductUrl(asin_in(urls[i])) >>
              ELSE << urls[i] >>])

\* enhanced_scraper.py:126-141: filtered_urls
filter_ads(urls) ==
    Concat([i \in 1..Len(urls) |->
              IF is_ad(urls[i])
              THEN IF asin_in(urls[i]) # ""
                   THEN << ProductUrl(asin_in(urls[i])) >>
                   ELSE <<>>
              ELSE << urls[i] >>])

\* enhanced_scraper.py:143-149: what the enhanced search returns for the list
\* the parent returned
filtered_or_original(urls) ==
    IF filter_ads(urls) = <<>> /\ urls # <<>> THEN urls ELSE filter_ads(urls)

\* enhanced_scraper.py:192-205: clean_urls, filled in the order set() gives
RECURSIVE clean_urls(_, _)
clean_urls(urls, cleaned) ==
    IF urls = <<>> THEN cleaned
    ELSE clean_urls(Tail(urls),
           IF ~is_ad(Head(urls)) THEN Append(cleaned, Head(urls))
           ELSE IF asin_in(Head(urls)) # ""
                   /\ \A i \in 1..Len(cleaned) : cleaned[i] # ProductUrl(asin_in(Head(urls)))
                THEN Append(cleaned, ProductUrl(asin_in(Head(urls))))
                ELSE cleaned)

\* list(product_urls), set(product_urls): the elements in any order
any_order(urls) ==
    {q \in [1..Cardinality(urls) -> urls] : \A i, j \in DOMAIN q : q[i] = q[j] => i = j}

\* self.make_request(url), as the scraper's class defines it
fetch_frame == Frame(IF enhanced THEN "E" ELSE "B", SEARCH, MAX_RETRIES)

CallSearchProducts ==
    /\ stack = <<>>
    /\ search.pc = "idle"
    /\ detail.pc = "idle"
    /\ \E max_pages \in 1..MaxPages :
         search' = [search EXCEPT !.pc = "page", !.max_pages = max_pages, !.page = 1,
                                  !.path = "standard"]
    /\ stack' = << [Frame("S", SEARCH, 0) EXCEPT !.pc = "fetch"], fetch_frame >>
    /\ calls' = calls + 1
    /\ ret' = NoRet
    /\ UNCHANGED << enhanced, respect_robots, robot_parser, disallowed, ua, proxies,
                    session_warmed, request_count,
                    discoverVars, identityVars, extractVars, recordVars,
                    backoff, analysis, detail >>

\* amazon_scraper.py:439-461, enhanced_scraper.py:124-156: the fetch of a page
\* of the standard search has ended. A failed page is skipped; after the last
\* page the set becomes the list, which the enhanced class filters. An
\* exception of make_request ends the parent's search; the enhanced class
\* catches it and starts _fallback_search.
PageFetched ==
    /\ Running("S", "fetch")
    /\ search.path = "standard"
    /\ ret.cls \in {"B", "E"}
    /\ ret' = NoRet
    /\ \E found \in (IF ret.outcome = "success"
                    THEN {Range(finds(page)) : page \in SearchPages} ELSE {{}}) :
         LET s == [search EXCEPT !.product_urls = @ \cup found]
         IN  IF ret.outcome = "raised"
             THEN IF enhanced
                  THEN /\ search' = [search EXCEPT !.path = "fallback", !.page = 1,
                                                   !.format = 1, !.product_urls = {}]
                       /\ stack' = Append(stack, fetch_frame)
                  ELSE /\ search' = [search EXCEPT !.pc = "done", !.result = "raise"]
                       /\ stack' = <<>>
             ELSE IF search.page < search.max_pages
             THEN /\ search' = [s EXCEPT !.page = @ + 1]
                  /\ stack' = Append(stack, fetch_frame)
             ELSE /\ \E final_urls \in any_order(s.product_urls) :
                       search' = [s EXCEPT !.pc = "done", !.result = "list",
                                           !.listed = final_urls,
                                           !.urls = IF enhanced
                                                    THEN filtered_or_original(final_urls)
                                                    ELSE final_urls]
                  /\ stack' = <<>>
    /\ UNCHANGED << enhanced, respect_robots, robot_parser, disallowed, ua, proxies,
                    session_warmed, request_count, calls,
                    discoverVars, identityVars, extractVars, recordVars,
                    backoff, analysis, detail >>

\* enhanced_scraper.py:169-205: a fetch of the fallback search has ended. An
\* exception is caught and the next format tried; the first format of a page
\* that yields URLs ends the page; after the last page clean_urls is built.
FallbackFetched ==
    /\ Running("S", "fetch")
    /\ search.path = "fallback"
    /\ ret.cls \in {"B", "E"}
    /\ ret' = NoRet
    /\ \E page_urls_ \in (IF ret.outcome = "success"
                         THEN {Range(finds(page)) : page \in SearchPages} ELSE {{}}) :
         LET found == page_urls_ # {}
             s == [search EXCEPT !.product_urls = @ \cup page_urls_]
         IN  IF ~found /\ search.format < 3
             THEN /\ search' = [s EXCEPT !.format = @ + 1]
                  /\ stack' = Append(stack, fetch_frame)
             ELSE IF search.page < search.max_pages
             THEN /\ search' = [s EXCEPT !.page = @ + 1, !.format = 1]
                  /\ stack' = Append(stack, fetch_frame)
             ELSE /\ \E urls \in any_order(s.product_urls) :
                       search' = [s EXCEPT !.pc = "done", !.result = "list",
                                           !.listed = urls,
                                           !.urls = clean_urls(urls, <<>>)]
                  /\ stack' = <<>>
    /\ UNCHANGED << enhanced, respect_robots, robot_parser, disallowed, ua, proxies,
                    session_warmed, request_count, calls,
                    discoverVars, identityVars, extractVars, recordVars,
                    backoff, analysis, detail >>

(***************************************************************************)
(* EnhancedAmazonScraper.extract_product_details                           *)
(*   (enhanced_scraper.py:208-235), the call being frame "D"               *)
(***************************************************************************)
MAX_REDIRECTS == 3     \* enhanced_scraper.py:223

\* self.extract_with_selenium(url) of a scraper that extend_with_selenium was
\* applied to (amazon_scraper.py:655-665): an exception and a falsy result
\* both lead on to the requests-based extraction ("None"); any other result is
\* returned as it is: a dict whose 'url' is the address asked for or the one
\* the browser ended on, or a dict with no 'url'.
extract_with_selenium(url) ==
    {[result |-> "None", fetch |-> "selenium", fields |-> NoFields],
     [result |-> "record", fetch |-> "selenium", fields |-> [key \in {"title"} |-> url]]}
    \cup {[result |-> "record", fetch |-> "selenium", fields |-> [key \in {"url"} |-> u]] :
            u \in {url, ProductUrl("B000000001"), ProductUrl("B000000002")}}

\* enhanced_scraper.py:211-219: the address the first round asks for
first_url(url) ==
    IF is_ad(url) /\ asin_in(url) # "" THEN ProductUrl(asin_in(url)) ELSE url

\* enhanced_scraper.py:224-235: the call after super().extract_product_details
\* has handed back r in one more round: a dict with another 'url' is followed
\* while rounds are left, None is returned after the last one; anything else
\* is returned; an exception is not caught.
after_round(d, r) ==
    IF r.result = "raise"
    THEN [d EXCEPT !.pc = "done", !.rounds = @ + 1, !.result = "raise"]
    ELSE IF r.result = "record" /\ "url" \in DOMAIN r.fields /\ r.fields["url"] # d.url
    THEN IF d.rounds + 1 < MAX_REDIRECTS
         THEN [d EXCEPT !.pc = "round", !.rounds = @ + 1, !.url = r.fields["url"]]
         ELSE [d EXCEPT !.pc = "done", !.rounds = @ + 1, !.url = r.fields["url"],
                        !.result = "None"]
    ELSE [d EXCEPT !.pc = "done", !.rounds = @ + 1, !.result = r.result,
                   !.record_url = IF r.result = "record" /\ "url" \in DOMAIN r.fields
                                  THEN r.fields["url"] ELSE NoUrl]

\* line 208: the call, made with a URL as search_products lists them.
CallEnhancedExtract ==
    /\ enhanced
    /\ stack = <<>>
    /\ search.pc = "idle"
    /\ detail.pc = "idle"
    /\ \E selenium \in BOOLEAN : \E url \in
           { ProductUrl("B000000001"),
             Url("aax-us-east.amazon.com",
                 << "x", "c", "https:", "", "www.amazon.com", "dp", "B000000001" >>,
                 {}, FALSE),
             Url(BASE_HOST,
                 << "gp", "slredirect", "picassoRedirect.html", "dp", "B000000002" >>,
                 {}, FALSE) } :
         detail' = [detail EXCEPT !.pc = "round", !.selenium = selenium, !.given = url,
                                  !.first = first_url(url), !.url = first_url(url)]
    /\ stack' = << [Frame("D", PRODUCT, 0) EXCEPT !.pc = "round"] >>
    /\ calls' = calls + 1
    /\ ret' = NoRet
    /\ UNCHANGED << enhanced, respect_robots, robot_parser, disallowed, ua, proxies,
                    session_warmed, request_count,
                    discoverVars, identityVars, extractVars, recordVars,
                    backoff, analysis, search >>

\* One more super().extract_product_details(url): the Selenium extractor's
\* dict if there is one, self.make_request(url) otherwise.
ExtractRound ==
    /\ Running("D", "round")
    /\ detail.pc = "round"
    /\ \E r \in (IF detail.selenium THEN extract_with_selenium(detail.url)
                 ELSE {[result |-> "None", fetch |-> "none", fields |-> NoFields]}) :
         IF r.result = "record"
         THEN /\ detail' = after_round(detail, r)
              /\ stack' = IF detail'.pc = "done" THEN <<>> ELSE stack
         ELSE /\ detail' = [detail EXCEPT !.pc = "fetch"]
              /\ stack' = << [Top EXCEPT !.pc = "fetch"], Frame("E", PRODUCT, MAX_RETRIES) >>
    /\ ret' = NoRet
    /\ UNCHANGED << enhanced, respect_robots, robot_parser, disallowed, ua, proxies,
                    session_warmed, request_count, calls,
                    discoverVars, identityVars, extractVars, recordVars,
                    backoff, analysis, search >>

\* amazon_scraper.py:666-790 under enhanced_scraper.py:225: the fetch of the
\* round has ended and the parent builds its dict for detail.url.
RoundFetched ==
    /\ Running("D", "fetch")
    /\ ret.cls = "E"
    /\ detail' \in
         IF ret.outcome = "success"
         THEN {after_round(detail, record_of(ret.outcome, detail.url, page, step_error)) :
                  page \in ProductPages, step_error \in BOOLEAN}
         ELSE {after_round(detail, record_of(ret.outcome, detail.url, <<>>, FALSE))}
    /\ stack' = IF detail'.pc = "done" THEN <<>> ELSE << [Top EXCEPT !.pc = "round"] >>
    /\ ret' = NoRet
    /\ UNCHANGED << enhanced, respect_robots, robot_parser, disallowed, ua, proxies,
                    session_warmed, request_count, calls,
                    discoverVars, identityVars, extractVars, recordVars,
                    backoff, analysis, search >>

\* A scraper of either class, built without the robots gate.
SearchInit ==
    /\ enhanced \in BOOLEAN
    /\ respect_robots = FALSE
    /\ robot_parser = None
    /\ disallowed = {}
    /\ ua = None
    /\ proxies \in {<< None >>, << None, ProxyName(1) >>}
    /\ session_warmed = FALSE
    /\ request_count = 0
    /\ stack = <<>>
    /\ ret = NoRet
    /\ calls = 0
    /\ max_proxies = 0
    /\ gpc = "idle"
    /\ all_proxies = <<>>
    /\ source = 0
    /\ task = <<>>
    /\ verdict = <<>>
    /\ results = <<>>
    /\ working_proxies = <<>>
    /\ pool = <<>>
    /\ cpc = "ready"
    /\ read_outcome = "none"
    /\ robots_reads = 0
    /\ answer = NoAnswer
    /\ soup = <<>>
    /\ page_urls = <<>>
    /\ prev_urls = <<>>
    /\ extractions = 0
    /\ markup = <<>>
    /\ product = NoProduct
    /\ backoff = NoBackoff
    /\ analysis = NoAnalysis
    /\ search = NoSearch
    /\ detail = NoDetail

SearchNext ==
    \/ CallSearchProducts
    \/ PageFetched
    \/ FallbackFetched
    \/ CallEnhancedExtract
    \/ ExtractRound
    \/ RoundFetched
    \/ GateCheck
    \/ PreRequestDelay
    \/ SelectProxy
    \/ Attempt
    \/ Exhausted
    \/ EnhancedStart
    \/ WarmUpDone
    \/ ProgressiveDelay
    \/ DirectPass
    \/ DirectPassDone
    \/ ProxyPassDone
    \/ WarmUpStart
    \/ WarmUpHome
    \/ WarmUpCategory

SearchSpec == SearchInit /\ [][SearchNext]_vars

\* The sequential flow never stops between two steps of a call: every sleep
\* ends and every request returns or times out.
FairSpec == Init /\ [][Next]_vars /\ WF_vars(Next)

(***************************************************************************)
(* Properties                                                              *)
(***************************************************************************)
Typed == {"success", "policy", "exhausted"}
Fetch == {"B", "E"}

\* C1: make_request hands back (True, response) only for a response with status
\* 200 whose body contains the site marker, is longer than the size threshold
\* and has no captcha marker; a status-200 body at or below the threshold is
\* classified as a failed attempt, never as success.
C1_SuccessOnlyIfPlausible ==
    /\ ret.outcome = "success" =>
          /\ ret.value.exc = "none"
          /\ ret.value.status = 200
          /\ ret.value.amazon
          /\ ret.value.len > MIN_BODY_LEN
          /\ ~ret.value.captcha
          /\ ret.last_kind = "success"
    /\ \A o \in Responses :
          o.status = 200 /\ o.len <= MIN_BODY_LEN => classify(o) \notin {"success", "raise"}

C1_Witness ==
    /\ ret.cls = "B"
    /\ ret.outcome = "success"
    /\ ret.attempt > 0
    /\ ~ret.only_transport

\* C2 (as claimed): a fetch whose gate check refuses the URL returns the
\* policy-blocked outcome having issued no HTTP request and having slept not at
\* all, for the base fetcher and for the enhanced one.
C2_RefusalWithoutRequestOrDelay ==
    (ret.cls \in Fetch /\ ret.gates # <<>> /\ ret.gates[1] = "False") =>
        /\ ret.outcome = "policy"
        /\ ret.reqs = 0
        /\ ~ret.slept

\* C3 (as claimed): whatever an attempt's session.get does, make_request ends
\* with a typed outcome; no exception reaches the caller.
C3_NeverRaises ==
    (ret.cls = "B" /\ ret.last_kind # "none") => ret.outcome \in Typed

\* C4 (as claimed): one logical fetch issues at most `retries` requests and
\* reports exhaustion only after exactly `retries` failed attempts, base and
\* enhanced alike.
C4_AtMostRetriesRequests ==
    ret.cls \in Fetch =>
        /\ ret.reqs <= ret.retries
        /\ (ret.outcome = "exhausted" => ret.reqs = ret.retries)

\* C4 (amended): the base fetch issues at most `retries` requests and reports
\* exhaustion after exactly `retries`; the enhanced fetch runs the base fetch
\* once on the direct connection and, only when that fails and the pool has more
\* than one member, a second time, so it issues at most 2 * retries requests,
\* and reports exhaustion after `retries` failed attempts of its last pass.
C4_AtMostRetriesPerPass ==
    /\ ret.cls = "B" =>
          /\ ret.reqs <= ret.retries
          /\ (ret.outcome = "exhausted" => ret.reqs = ret.retries)
    /\ ret.cls = "E" =>
          /\ ret.passes \in 0..2
          /\ (ret.outcome \in Typed => ret.passes >= 1)
          /\ ret.reqs <= ret.passes * ret.retries
          /\ (ret.passes = 2 => Len(proxies) > 1)
          /\ (ret.outcome = "exhausted" =>
                 /\ ret.attempt = ret.retries
                 /\ ret.reqs \in {ret.retries, ret.passes * ret.retries})

C4_Witness ==
    /\ ret.cls = "E"
    /\ ret.outcome = "exhausted"
    /\ ret.retries = MAX_RETRIES
    /\ ret.reqs = 2 * MAX_RETRIES

\* C5: every make_request call that has started comes to an end: its frame and
\* all frames it pushed, the warm-up fetches included, leave the stack and the
\* caller has the call's outcome (an exception that reaches the caller ends the
\* call too; whether one can is the matter of C3 and C10).
C5_EveryCallEnds ==
    (stack # <<>>) ~> (stack = <<>> /\ ret.cls \in Fetch /\ ret.outcome # "none")

C5_Witness ==
    /\ enhanced
    /\ stack = <<>>
    /\ session_warmed
    /\ ret.cls = "E"
    /\ ret.outcome = "exhausted"
    /\ ret.passes = 2

Covered(f) == \A p \in Range(proxies) : p \in f.failed_proxies

Validated == {i \in DOMAIN verdict : verdict[i] = "200"}

PoolOnlyValidated ==
    /\ None \in Range(pool)
    /\ pool[1] = None
    /\ Len(pool) <= max_proxies
    /\ \A k \in 2..Len(pool) : \E i \in Validated : all_proxies[i] = pool[k]
    /\ (Validated = {} => pool = << None >>)

\* C8 (as claimed): for every max_proxies the returned pool contains the direct
\* connection, has at most max_proxies members, every other member passed its
\* validation, and with no validated candidate the pool is the direct
\* connection alone.
C8_PoolHasDirectAndCap ==
    gpc = "done" => PoolOnlyValidated

\* C8 (amended): the same for every max_proxies >= 1 (the default is 10); with
\* max_proxies <= 0 the cut proxies[:max_proxies] also removes the direct
\* connection.
C8_PoolHasDirectAndCapFromOne ==
    /\ (gpc = "done" /\ max_proxies >= 1) => PoolOnlyValidated
    /\ (gpc = "done" /\ max_proxies = 0) => pool = <<>>

C8_Witness ==
    /\ gpc = "done"
    /\ max_proxies = 2
    /\ Len(working_proxies) = 2
    /\ pool = << None, working_proxies[1] >>
    /\ \E i \in DOMAIN verdict : verdict[i] # "200"

\* The candidates whose own validation answered 200, in the order scraped.
ExpectedWorking ==
    LET idx == SelectSeq([i \in 1..Len(all_proxies) |-> i], LAMBDA i : verdict[i] = "200")
    IN  [k \in 1..Len(idx) |-> all_proxies[idx[k]]]

\* C9: whatever the order in which the validation tasks run and end, each
\* finished task's result is decided by its own request alone, no task is lost,
\* and the working proxies are exactly the candidates whose own request
\* answered 200.
C9_WorkingAreExactlyValidated ==
    /\ gpc = "validate" =>
          \A i \in DOMAIN task :
              /\ task[i] = "done" =>
                    results[i] = (IF verdict[i] = "200" THEN all_proxies[i] ELSE None)
              /\ task[i] # "done" => results[i] = "unset" /\ verdict[i] = "none"
    /\ gpc = "done" =>
          /\ \A i \in DOMAIN task : task[i] = "done"
          /\ Len(results) = Len(all_proxies)
          /\ working_proxies = ExpectedWorking

C9_Witness ==
    /\ gpc = "done"
    /\ Len(all_proxies) = 3
    /\ verdict = << "timeout", "200", "error" >>
    /\ working_proxies = << all_proxies[2] >>

\* C10 (as claimed): can_fetch never raises; on any internal failure, that of
\* the identity source included, it returns True.
C10_CanFetchNeverRaises ==
    ret.cls = "B" => \A i \in DOMAIN ret.gates : ret.gates[i] \in {"True", "False"}

\* C11 (as claimed): can_fetch returns True for every URL whenever the ruleset
\* could not be fetched or parsed at construction, or the gate is disabled; with
\* the gate disabled no request for the ruleset is ever made; and the ruleset
\* is requested at most once in the scraper's lifetime.
C11_FailOpenAndSingleFetch ==
    /\ (answer.op = "can_fetch" /\ (~respect_robots \/ read_outcome # "ok")) =>
          answer.value = "True"
    /\ (~respect_robots => robots_reads = 0)
    /\ robots_reads <= 1

\* C12 (as claimed): get_random_user_agent returns a user agent on every call
\* and never raises; with the dynamic source unavailable the value is a member
\* of the hard-coded pool.
C12_RotatorNeverRaises ==
    answer.op = "get_random_user_agent" =>
        /\ answer.value # "raise"
        /\ (ua = None => answer.value \in user_agents)

\* C13 (as claimed): in every header set get_enhanced_headers produces, the
\* mobile, platform and viewport hints agree with the user agent; a mobile user
\* agent never comes with Sec-Ch-Ua-Mobile ?0, the Windows platform or a
\* desktop viewport width.
C13_HeadersConsistent ==
    (answer.op = "get_enhanced_headers" /\ answer.value = "headers") =>
        /\ answer.headers.mobile = (IF IsMobile(answer.headers.agent) THEN "?1" ELSE "?0")
        /\ answer.headers.platform = PlatformOf(answer.headers.agent)
        /\ (IsMobile(answer.headers.agent) => answer.headers.viewport \notin viewport_sizes)

\* C14: the four strategies run in the order structural selectors, link
\* patterns, data-asin attributes, free text; a strategy contributes only when
\* every strategy before it found nothing, so the returned URLs are exactly
\* those of the first strategy that finds any, and none when all four find
\* nothing.
C14_FirstStrategyWithResult ==
    extractions > 0 =>
        LET S == << Range(structural(soup)), Range(link_pattern(soup)),
                    Range(data_asin(soup)), Range(free_text(soup)) >>
        IN  /\ \A k \in 1..4 :
                 (S[k] # {} /\ \A j \in 1..(k - 1) : S[j] = {}) => Range(page_urls) = S[k]
            /\ ((\A k \in 1..4 : S[k] = {}) => page_urls = <<>>)

C14_Witness ==
    /\ extractions > 0
    /\ structural(soup) = <<>>
    /\ link_pattern(soup) = <<>>
    /\ data_asin(soup) # <<>>
    /\ free_text(soup) # <<>>
    /\ Range(page_urls) = Range(data_asin(soup))
    /\ Range(free_text(soup)) \cap Range(page_urls) = {}

\* C15 (as claimed): every URL returned, whichever strategy found it, is
\* absolute, on the amazon.com host, has /dp/ or /gp/product/ in its path, no
\* fragment and no query parameter but ref.
C15_ReturnedUrlsWellFormed ==
    \A i \in 1..Len(page_urls) :
        /\ on_amazon_host(page_urls[i].host)
        /\ has_product_segment(page_urls[i].path)
        /\ ~page_urls[i].fragment
        /\ page_urls[i].query \subseteq {"ref"}

NoRepeat(list) == \A i, j \in 1..Len(list) : list[i] = list[j] => i = j

\* C16: two extractions on the same markup return the same set of URLs; no URL
\* occurs twice in a returned list however many selectors or patterns found
\* it; and URLs are merged only when their normalized forms are equal, so
\* every distinct form found is returned.
C16_DeterministicSet ==
    /\ extractions > 0 =>
          /\ NoRepeat(page_urls)
          /\ Range(page_urls) = Range(finds(soup))
    /\ extractions > 1 =>
          /\ NoRepeat(prev_urls)
          /\ Range(prev_urls) = Range(page_urls)

C16_Witness ==
    /\ extractions = 2
    /\ Len(page_urls) = 2
    /\ prev_urls # page_urls
    /\ Len(finds(soup)) > 2
    /\ page_urls[1].path[Len(page_urls[1].path)] = page_urls[2].path[Len(page_urls[2].path)]

Built == product.result = "record"

\* The elements of the parsed page that price candidate k matches.
Matching(k) == {i \in 1..Len(markup) : markup[i].kind \in price_selectors[k]}

\* C17 (as claimed): a key is in the record only when a candidate for its field
\* was found in the markup: a page with a title and no price candidate gives a
\* record with 'title' and without a 'price' key, and likewise for the other
\* fields.
C17_KeyOnlyWhenFound ==
    Built =>
        /\ ("title" \in DOMAIN product.fields
               <=> \E i \in 1..Len(markup) : markup[i].kind = "#productTitle")
        /\ ("price" \in DOMAIN product.fields
               <=> \E k \in 1..Len(price_selectors) : Matching(k) # {})
        /\ ("availability" \in DOMAIN product.fields
               <=> \E i \in 1..Len(markup) : markup[i].kind = "#availability")
        /\ ("description" \in DOMAIN product.fields
               <=> \E i \in 1..Len(markup) : markup[i].kind = "#productDescription")

\* C18: the price is the text of the first candidate, in the configured order,
\* that matches an element, wherever the elements stand in the document; when
\* only the second candidate matches, the price is that element's text.
C18_PriceByCandidateOrder ==
    Built =>
        \A k \in 1..Len(price_selectors) :
            (Matching(k) # {} /\ \A j \in 1..(k - 1) : Matching(j) = {}) =>
                \E i \in Matching(k) :
                    /\ \A j \in Matching(k) : i <= j
                    /\ product.fields["price"] = markup[i].text

C18_Witness ==
    /\ Built
    /\ Len(markup) = 2
    /\ markup[1].kind = "#priceblock_dealprice"
    /\ markup[2].kind = "#priceblock_ourprice"
    /\ markup[1].text = "19.99"
    /\ markup[2].text = "24.99"
    /\ product.fields["price"] = "24.99"

\* C19 (as claimed): a candidate that is present but yields empty text is
\* skipped: the price is the text of the first candidate that yields non-empty
\* text, never an empty string taken from an earlier candidate.
C19_EmptyCandidateSkipped ==
    Built =>
        \A k \in 1..Len(price_selectors) :
            (/\ select_one(markup, price_selectors[k]).text # ""
             /\ \A j \in 1..(k - 1) : select_one(markup, price_selectors[j]).text = "")
            => product.fields["price"] = select_one(markup, price_selectors[k]).text

\* C20 (as claimed): extract_product_details never raises: when the fetch
\* fails or a step of the extraction fails it returns None, and otherwise a
\* record.
C20_ExtractNeverRaises ==
    product.result # "unset" =>
        /\ product.result \in {"record", "None"}
        /\ (product.fetch # "success" => product.result = "None")
        /\ (Built => product.fetch = "success" /\ "url" \in DOMAIN product.fields)

\* C23 (as claimed): a refusal by the gate is not retried: within one fetch
\* call the gate is evaluated once and after a refusal the fetch procedure is
\* not entered again, for the base and the enhanced fetcher; transport failures
\* and blocked responses are retried in the attempt loop and reach the caller
\* only as exhaustion.
C23_RefusalNotRetried ==
    /\ (ret.cls \in Fetch /\ \E i \in 1..Len(ret.gates) : ret.gates[i] = "False") =>
          /\ Len(ret.gates) = 1
          /\ ret.passes <= 1
    /\ (ret.cls = "B" /\ ret.last_kind \in {"transport", "blocked"}) =>
          /\ ret.outcome = "exhausted"
          /\ ret.attempt = ret.retries

C25_SoftBlockCooldown ==
    (Running("B", "request") /\ Top.attempt > 0 /\ Top.last_kind \in {"soft202", "blocked"}) =>
        /\ Top.failed_proxies = Top.used_failed \ {None}
        /\ (Top.last_sleep = "elevated" \/ Top.cooldown)

\* C26 (as claimed): no attempt after the first starts without a sleep since
\* the failed attempt before it, whatever the class of that failure.
C26_SleepBetweenAttempts ==
    (Running("B", "request") /\ Top.attempt > 0) =>
        (Top.last_sleep # "none" \/ Top.cooldown)

\* C29: when EnhancedAmazonScraper.make_request ends, by a result or by an
\* exception, with or without the second pass and for the fetches nested in
\* the warm-up as well, self.proxies is what it was when the call began; and
\* every attempt of the first pass uses the direct connection.
C29_ProxiesRestored ==
    /\ ret.cls = "E" => proxies = ret.entry
    /\ (/\ Running("B", "request")
        /\ Len(stack) > 1
        /\ stack[Len(stack) - 1].fn = "E"
        /\ stack[Len(stack) - 1].pc = "pass1") =>
          /\ Top.proxy = None
          /\ proxies = << None >>

C29_Witness ==
    /\ stack = <<>>
    /\ ret.cls = "E"
    /\ ret.passes = 2
    /\ ret.outcome = "raised"
    /\ Len(proxies) = 3
    /\ proxies = ret.entry

Warmups(frames) == Cardinality({i \in 1..Len(frames) : frames[i].fn = "W"})

\* C30: the warm-up is started at most once per scraper: only by the first
\* make_request call made on the object, never by a call made from inside
\* warm_up_session, and session_warmed, once true, stays true.
C30_WarmUpAtMostOnce ==
    [][/\ (session_warmed => session_warmed')
       /\ ((Len(stack') > Len(stack) /\ stack'[Len(stack')].fn = "W") =>
              /\ request_count' = 1
              /\ Len(stack) = 1
              /\ ~session_warmed)
       /\ Warmups(stack') <= 1]_vars

C30_Witness ==
    /\ stack = <<>>
    /\ calls = 2
    /\ session_warmed
    /\ request_count = 4
    /\ ret.cls = "E"

Backoffs == {k \in 1..Len(backoff.delays) : backoff.delays[k].sleep = "backoff"}

Least(S) == CHOOSE x \in S : \A y \in S : x <= y
Greatest(S) == CHOOSE x \in S : \A y \in S : x >= y

\* The backoff times possible after attempt index i
BackoffTimes(i) ==
    {s.delay : s \in sleeps_after_failure(backoff.fetcher, backoff.lo, backoff.hi,
                                          i, "transport")}

Amounts(i) ==
    LET item == analysis.items[i]
        amount == CASE item.price \in {"4.50", "$4.50"} -> {450}
                    [] item.price = "$19.99" -> {1999}
                    [] item.price = "0" -> {0}
                    [] OTHER -> {}
    IN  CASE analysis.analyzer = "rankings" -> amount
          [] analysis.analyzer = "apps" ->
               IF item.is_free = "False" /\ item.price \in {"0", "4.50"}
               THEN amount ELSE {}
          [] OTHER -> {}

Counted == {i \in 1..Len(analysis.items) : Amounts(i) # {}}

\* C21: an analyzer answers an empty or missing collection with its explicit
\* error result and never ends in a division by zero; for a non-empty
\* collection with no price that is a number, min, max and average are not
\* computed, and otherwise they are taken over the prices that are numbers
\* only, a price that is none not being counted as zero.
C21_NoDataAndGuardedAverage ==
    /\ analysis.kind # "ZeroDivisionError"
    /\ analysis.kind # "unset" =>
          /\ analysis.kind = "error" <=>
                (analysis.given = "None" \/ analysis.items = <<>>)
          /\ analysis.kind = "analysis" =>
                /\ analysis.used = Cardinality(Counted)
                /\ Counted = {} =>
                      /\ analysis.min = <<>>
                      /\ analysis.max = <<>>
                      /\ analysis.average =
                            (IF analysis.analyzer = "rankings" THEN << 0 >> ELSE <<>>)
                /\ Counted # {} =>
                      /\ \E i \in Counted : analysis.min = << CHOOSE a \in Amounts(i) : TRUE >>
                      /\ \E i \in Counted : analysis.max = << CHOOSE a \in Amounts(i) : TRUE >>
                      /\ \A i \in Counted : \A a \in Amounts(i) :
                            analysis.min[1] <= a /\ a <= analysis.max[1]
                      /\ analysis.min[1] <= analysis.average[1]
                      /\ analysis.average[1] <= analysis.max[1]

C21_Witness ==
    /\ analysis.analyzer = "rankings"
    /\ analysis.kind = "analysis"
    /\ Len(analysis.items) = 2
    /\ analysis.items[1].price = "N/A"
    /\ analysis.items[2].price = "$4.50"
    /\ analysis.min = << 450 >>
    /\ analysis.average = << 450 >>
    /\ analysis.used = 1

Unrecoverable(url) == is_ad(url) /\ asin_in(url) = ""
Recoverable(url) == is_ad(url) /\ asin_in(url) # ""

\* What enhanced extract_product_details does with the address it is given:
\* the first round asks for the canonical address when the identifier can be
\* recovered from a wrapper and for the address as given otherwise; no call
\* makes more than MAX_REDIRECTS rounds; a returned record that names an
\* address names the one last asked for, so that a call whose last round was
\* redirected again returns no record.
RoundsBounded ==
    /\ detail.pc # "idle" =>
          /\ Recoverable(detail.given) => detail.first = ProductUrl(asin_in(detail.given))
          /\ ~Recoverable(detail.given) => detail.first = detail.given
    /\ detail.rounds <= MAX_REDIRECTS
    /\ (detail.pc = "done" /\ detail.result = "record") =>
          detail.record_url \in {NoUrl, detail.url}

\* C22 (as claimed): the enhanced scraper replaces a wrapper URL by the
\* canonical URL of the recovered identifier and keeps the wrapper URL itself
\* when no identifier can be recovered, in the list search_products returns as
\* in extract_product_details, which makes at most 3 rounds.
C22_WrapperRecoveredOrKept ==
    /\ RoundsBounded
    /\ (enhanced /\ search.result = "list") =>
          \A i \in 1..Len(search.listed) :
             /\ Recoverable(search.listed[i]) =>
                   \E j \in 1..Len(search.urls) :
                      search.urls[j] = ProductUrl(asin_in(search.listed[i]))
             /\ Unrecoverable(search.listed[i]) =>
                   \E j \in 1..Len(search.urls) : search.urls[j] = search.listed[i]

\* C22 (amended): extract_product_details as claimed. In the list
\* search_products returns, a wrapper URL with a recoverable identifier is
\* replaced by the canonical URL and a wrapper URL with none is left out; only
\* when nothing at all is left does the standard search return the list as
\* it was, wrappers included and not rewritten. Every other URL is kept.
C22_WrapperRecoveredOrDropped ==
    /\ RoundsBounded
    /\ (enhanced /\ search.result = "list") =>
          LET all_lost == /\ search.path = "standard"
                          /\ search.listed # <<>>
                          /\ \A i \in 1..Len(search.listed) : Unrecoverable(search.listed[i])
          IN  IF all_lost
              THEN search.urls = search.listed
              ELSE /\ \A i \in 1..Len(search.listed) :
                         /\ Recoverable(search.listed[i]) =>
                               \E j \in 1..Len(search.urls) :
                                  search.urls[j] = ProductUrl(asin_in(search.listed[i]))
                         /\ ~is_ad(search.listed[i]) =>
                               \E j \in 1..Len(search.urls) :
                                  search.urls[j] = search.listed[i]
                   /\ \A j \in 1..Len(search.urls) :
                         /\ ~is_ad(search.urls[j])
                         /\ \E i \in 1..Len(search.listed) :
                               \/ search.urls[j] = search.listed[i]
                               \/ /\ Recoverable(search.listed[i])
                                  /\ search.urls[j] = ProductUrl(asin_in(search.listed[i]))

C22_Witness ==
    /\ enhanced
    /\ search.result = "list"
    /\ search.path = "standard"
    /\ Len(search.listed) = 2
    /\ \E i \in 1..2 : Unrecoverable(search.listed[i])
    /\ \E i \in 1..2 : Recoverable(search.listed[i])
    /\ search.urls = << ProductUrl("B000000001") >>

\* C28 (as claimed): no URL occurs twice in the list search_products returns,
\* in either class, however many pages were read and whatever they share; a
\* page whose fetch failed is skipped, and the product URLs found on the other
\* pages are in the list.
C28_NoUrlTwice ==
    search.result = "list" =>
        /\ \A i, j \in 1..Len(search.urls) : search.urls[i] = search.urls[j] => i = j
        /\ search.path = "standard" =>
              \A u \in search.product_urls :
                 ~is_ad(u) => \E j \in 1..Len(search.urls) : search.urls[j] = u

====
